---- MODULE Spec2Model ----
(***************************************************************************)
(* Model of the inventory mirror scripts of src/api:                       *)
(*   - the level assignment of the pull scripts (get_level and the loop of *)
(*     main that calls it), inv-parts_to_json.py / inv-pts_to_json.py;     *)
(*   - the price-break aggregation of fetch_suppliers;                     *)
(*   - the push runs of json_to_inv-pts.py and json_to_inv-parts.py;       *)
(*   - the template import of json2inv-template.py;                        *)
(*   - the paging loop fetch_all and the retry loop robust_request;        *)
(*   - the construction of the dependency graph by the pull scripts;       *)
(*   - the category resolution create_category_hierarchy;                  *)
(*   - the BOM lines of json_to_inv-pts.py push_bom;                       *)
(*   - the variant_of string, written by the pull and resolved by the push;*)
(*   - delete_part_from_file of the rm scripts;                            *)
(*   - the resolution of a company by name.                                *)
(* Each part of the model has its own specification over its own           *)
(* variables; the variables of the other parts stay unchanged.             *)
(***************************************************************************)
EXTENDS Integers, Sequences, FiniteSets, TLC

VARIABLES
    \* ---- level assignment (inv-parts_to_json.py main, get_level) ----
    deps,        \* deps: pk -> the pks it depends on (variant_of, BOM sub-parts)
    level_memo,  \* level_memo: the dict pk -> level shared by all calls
    stack,       \* the active get_level frames, innermost last
    called,      \* the pks the loop of main has already passed to get_level
    lpc,         \* "run" | "done" | "crashed" (uncaught RecursionError)
    \* ---- price-break aggregation (inv-parts_to_json.py fetch_suppliers) ----
    price_breaks,    \* the raw rows the remote lists for one supplier part
    sp_price_breaks, \* sp_details['price_breaks'], the rows written to the file
    apc,             \* "fetch" | "done"
    \* ---- push run (json_to_inv-pts.py, json_to_inv-parts.py) ----
    script,       \* "pts" (json_to_inv-pts.py) | "parts" (json_to_inv-parts.py)
    force,        \* --force
    clean,        \* --clean-dependencies (json_to_inv-pts.py only)
    force_price,  \* --force-price
    r_strict,     \* the remote rejects a POST that duplicates an existing row
    corpus,       \* the part files under the root directory
    r_categories, \* remote part categories
    r_parts,      \* remote parts
    r_companies,  \* remote companies
    r_sps,        \* remote supplier parts
    r_pbs,        \* remote price breaks
    r_boms,       \* remote BOM lines
    next_pk,      \* the pk the remote assigns to the next created row
    cache,        \* cache: name -> list of part records
    queue,        \* the files main has still to push, in its order
    cur,          \* <<file>> being pushed, or <<>>
    part_pk,      \* part_pk / new_pk of the file being pushed (0: None)
    cat_pk,       \* the category pk of the payload of the file being pushed
    existing,     \* the list 'existing' of the file being pushed
    ppc,          \* position of the run
    run,          \* 1: first run, 2: the run repeated over the same corpus
    attempted,    \* files whose push has ended in this run
    failed,       \* files whose push ended in an error in this run
    warned,       \* <<level, name>> keys main has printed a warning for
    posts,        \* kinds of rows this run has sent a POST for
    vb_writes,    \* pks this run has sent validated_bom = True to
    snapshot,     \* the remote rows at the start of this run
    run1_ok,      \* the first run went through without any error
    page_next,    \* the server: the 'next' URL of the page at each URL
    page_kind,    \* the server: the JSON at each URL, "paged" | "array" | "object"
    page_len,     \* the server: the number of records of the answer at each URL
    url,          \* fetch_all: url
    requested,    \* fetch_all: the URLs requested so far, in order
    items,        \* fetch_all: items
    fpc,          \* position of fetch_all
    responses,    \* robust_request: the outcomes of the attempts so far
    delays,       \* robust_request: the delays slept so far, in seconds
    rpc,          \* position of robust_request
    \* ---- dependency graph of the pull scripts (main, fetch_bom) ----
    g_script,     \* "parts" (inv-parts_to_json.py) | "pts" (inv-pts_to_json.py)
    g_parts,      \* all_parts: pk -> the part record the remote listed
    g_deps,       \* deps: pk -> the list of pks appended so far
    g_pending,    \* the pks the loop over all_parts.items() has not reached yet
    gpc,          \* "build" | "done" | "crashed" (uncaught KeyError)
    \* ---- category resolution (create_category_hierarchy) ----
    k_rows,       \* the part categories of the remote
    k_strict,     \* the remote rejects a second category of one name and parent
    k_next,       \* the pk the remote assigns to the next created category
    k_log,        \* the calls so far: path, rows before, returned pk, rows created
    kpc,          \* "run" | "crashed" (a POST was rejected)
    \* ---- BOM lines of one file (json_to_inv-pts.py push_bom) ----
    b_tree,       \* tree: the lines of the .bom.json, each with its resolved sub_pk
    b_i,          \* the line the loop is at
    b_rows,       \* the BOM rows the remote holds for the parent
    b_existing,   \* existing_boms: the list fetched before the loop, extended
    b_log,        \* the PATCH and POST requests issued so far, with their outcome
    bpc,          \* "loop" | "done"
    \* ---- variant_of of a part file (inv-parts_to_json.py main,
    \*      json_to_inv-parts.py resolve_variant_target) ----
    v_parts,      \* the parts of the remote, in cache order; the pk is the index
    v_name,       \* name of the part a variant points to
    v_rev,        \* its revision
    v_str,        \* the string of "variant_of" in the part file
    v_res,        \* what resolve_variant_target returned (0: None)
    vpc,          \* "pull" | "push" | "done"
    \* ---- removal of one part file (rm-inv-pts.py, rm-inv-parts.py
    \*      delete_part_from_file) ----
    d_script,     \* "pts" (rm-inv-pts.py) | "parts" (rm-inv-parts.py)
    d_clean,      \* "none" | "confirm" (--clean-dependencies) | "yes" (...-yes)
    d_remove_json,\* --remove-json
    d_cands,      \* candidates: the matching remote parts, each with or without dependencies
    d_i,          \* the candidate the loop is at
    d_deleted,    \* the pks whose DELETE was answered 204
    d_skipped,    \* the pks the loop skipped with 'continue'
    d_files,      \* the .json and .bom.json of the part are on disk
    dpc,          \* "loop" | "done"
    \* ---- resolution of one company (json_to_inv-parts.py
    \*      get_or_create_company, json_to_inv-pts.py push_part) ----
    c_script,     \* "pts" | "parts"
    c_fuzzy,      \* the name filter of the remote matches names that contain the value
    c_rows,       \* the companies of the remote
    c_name,       \* the name asked for
    c_pk,         \* the pk bound to the relationship (0: none)
    c_created,    \* a company was POSTed
    cpc           \* "resolve" | "done" | "exit"

levelVars == <<deps, level_memo, stack, called, lpc>>

aggVars == <<price_breaks, sp_price_breaks, apc>>

flagVars == <<script, force, clean, force_price, r_strict, corpus>>

remoteVars == <<r_categories, r_parts, r_companies, r_sps, r_pbs, r_boms, next_pk>>

runVars == <<cache, queue, cur, part_pk, cat_pk, existing, ppc, run>>

histVars == <<attempted, failed, warned, posts, vb_writes, snapshot, run1_ok>>

pushVars == <<flagVars, remoteVars, runVars, histVars>>

fetchVars == <<page_next, page_kind, page_len, url, requested, items, fpc>>

retryVars == <<responses, delays, rpc>>

graphVars == <<g_script, g_parts, g_deps, g_pending, gpc>>

catVars == <<k_rows, k_strict, k_next, k_log, kpc>>

bomVars == <<b_tree, b_i, b_rows, b_existing, b_log, bpc>>

variantVars == <<v_parts, v_name, v_rev, v_str, v_res, vpc>>

removeVars == <<d_script, d_clean, d_remove_json, d_cands, d_i, d_deleted, d_skipped,
                d_files, dpc>>

companyVars == <<c_script, c_fuzzy, c_rows, c_name, c_pk, c_created, cpc>>

moreVars == <<bomVars, variantVars, removeVars, companyVars>>

auxVars == <<graphVars, catVars, moreVars>>

netVars == <<fetchVars, retryVars, auxVars>>

vars == <<levelVars, aggVars, pushVars, netVars>>

\* The part of the state a specification does not use stays as it is here.
IdleLevel ==
    /\ deps = <<>> /\ level_memo = <<>> /\ stack = <<>> /\ called = {} /\ lpc = "idle"

IdleAgg ==
    /\ price_breaks = <<>> /\ sp_price_breaks = <<>> /\ apc = "idle"

IdlePush ==
    /\ script = "none" /\ force = FALSE /\ clean = FALSE /\ force_price = FALSE
    /\ r_strict = FALSE /\ corpus = {}
    /\ r_categories = {} /\ r_parts = {} /\ r_companies = {} /\ r_sps = {}
    /\ r_pbs = {} /\ r_boms = {} /\ next_pk = 0
    /\ cache = <<>> /\ queue = <<>> /\ cur = <<>> /\ part_pk = 0 /\ cat_pk = 0
    /\ existing = <<>> /\ ppc = "idle" /\ run = 0
    /\ attempted = {} /\ failed = {} /\ warned = {} /\ posts = {}
    /\ vb_writes = {} /\ snapshot = <<>> /\ run1_ok = FALSE

IdleFetch ==
    /\ page_next = <<>> /\ page_kind = <<>> /\ page_len = <<>>
    /\ url = "None" /\ requested = <<>> /\ items = <<>> /\ fpc = "idle"

IdleRetry ==
    /\ responses = <<>> /\ delays = <<>> /\ rpc = "idle"

IdleGraph ==
    /\ g_script = "none" /\ g_parts = <<>> /\ g_deps = <<>> /\ g_pending = {}
    /\ gpc = "idle"

IdleCat ==
    /\ k_rows = {} /\ k_strict = FALSE /\ k_next = 0 /\ k_log = <<>> /\ kpc = "idle"

IdleBom ==
    /\ b_tree = <<>> /\ b_i = 0 /\ b_rows = {} /\ b_existing = <<>>
    /\ b_log = <<>> /\ bpc = "idle"

IdleVariant ==
    /\ v_parts = <<>> /\ v_name = <<>> /\ v_rev = <<>> /\ v_str = <<>>
    /\ v_res = 0 /\ vpc = "idle"

IdleRemove ==
    /\ d_script = "none" /\ d_clean = "none" /\ d_remove_json = FALSE
    /\ d_cands = <<>> /\ d_i = 0 /\ d_deleted = {} /\ d_skipped = {}
    /\ d_files = FALSE /\ dpc = "idle"

IdleCompany ==
    /\ c_script = "none" /\ c_fuzzy = FALSE /\ c_rows = {} /\ c_name = <<>>
    /\ c_pk = 0 /\ c_created = FALSE /\ cpc = "idle"

IdleMore == IdleBom /\ IdleVariant /\ IdleRemove /\ IdleCompany

IdleAux == IdleGraph /\ IdleCat /\ IdleMore

IdleNet == IdleFetch /\ IdleRetry /\ IdleAux

(***************************************************************************)
(* Level assignment                                                        *)
(***************************************************************************)

\* The pks of the fetched parts (the keys of all_parts).
all_parts == {"A", "B", "C", "D"}

\* A pk that a part refers to but that is not among the fetched parts.
MissingPk == "X"

\* Largest number of distinct dependencies of one part.
MaxDeps == 2

\* Depth of nested get_level frames at which the interpreter raises
\* RecursionError.  An acyclic graph over all_parts never nests deeper
\* than Cardinality(all_parts) frames.
MaxDepth == 5

\* deps.get(pk): the dependencies of pk, empty for a pk without entry.
DepsGet(pk) == IF pk \in DOMAIN deps THEN deps[pk] ELSE {}

\* a plausible slip: the level of the dependencies is stored unincremented
LevelFromDepsNoInc(max_dep_level) == max_dep_level

\* memo[pk] = 1 + max_dep_level
LevelFromDeps(max_dep_level) == 1 + max_dep_level

\* a plausible slip: the level of the last dependency instead of the maximum
FoldLast(acc, lvl) == lvl

\* max(..., default=0) folded over the values returned so far
FoldMax(acc, lvl) == IF acc >= lvl THEN acc ELSE lvl

\* the dependency graph has a cycle through pk
RECURSIVE ReachFrom(_, _)
ReachFrom(S, n) ==
    IF n = 0 THEN S
    ELSE ReachFrom(S \cup UNION {DepsGet(x) : x \in S}, n - 1)

Reaches(a, b) == b \in ReachFrom(DepsGet(a), Cardinality(all_parts))

OnCycle(pk) == Reaches(pk, pk)

Acyclic == \A pk \in all_parts : ~OnCycle(pk)

\* A position of every pk in one topological order of the acyclic graphs
\* the runs start from.
Rank == [pk \in all_parts |->
            IF pk = "A" THEN 4 ELSE IF pk = "B" THEN 3 ELSE IF pk = "C" THEN 2 ELSE 1]

\* every edge between fetched parts goes to a part of lower rank
ForwardEdges(g) ==
    \A a \in all_parts : \A b \in g[a] \cap all_parts : Rank[b] < Rank[a]

\* the edges among A, B and C are exactly A -> B -> C -> A
HasCycleABC(g) == g["A"] = {"B"} /\ g["B"] = {"C"} /\ g["C"] = {"A"}

\* The graphs a run starts from: every acyclic graph, up to the names of
\* the pks (each is the renaming of a graph with forward edges, and main
\* passes the pks to get_level in any order), each part having at most
\* MaxDeps dependencies, one of which may be absent from all_parts; and the
\* graphs made of the cycle A -> B -> C -> A and any dependencies of D.
InitLevel ==
    /\ deps \in [all_parts -> {S \in SUBSET (all_parts \cup {MissingPk}) :
                                   Cardinality(S) <= MaxDeps}]
    /\ \A pk \in all_parts : pk \notin deps[pk]
    /\ ForwardEdges(deps) \/ HasCycleABC(deps)
    /\ level_memo = <<>>
    /\ stack = <<>>
    /\ called = {}
    /\ lpc = "run"
    /\ IdleAgg
    /\ IdlePush
    /\ IdleNet

\* for pk in all_parts: get_level(pk, level_memo, deps)   -- the call itself
MainCall(pk) ==
    /\ lpc = "run"
    /\ stack = <<>>
    /\ pk \in all_parts \ called
    /\ called' = called \cup {pk}
    /\ IF pk \in DOMAIN level_memo
       THEN UNCHANGED <<level_memo, stack>>
       ELSE IF DepsGet(pk) = {}
            THEN /\ level_memo' = level_memo @@ (pk :> 1)
                 /\ UNCHANGED stack
            ELSE /\ stack' = <<[pk |-> pk, todo |-> deps[pk], max |-> 0]>>
                 /\ UNCHANGED level_memo
    /\ UNCHANGED <<deps, lpc>>
    /\ UNCHANGED <<aggVars, pushVars, netVars>>

\* One step of the innermost frame: the generator of max() asks for the
\* level of the next dependency.
GetLevelDep ==
    /\ lpc = "run"
    /\ stack # <<>>
    /\ LET n == Len(stack)
           f == stack[n]
       IN /\ f.todo # {}
          /\ \E d \in f.todo :
               IF d \in DOMAIN level_memo
               THEN /\ stack' = [stack EXCEPT ![n] =
                          [f EXCEPT !.todo = f.todo \ {d},
                                    !.max = FoldMax(f.max, level_memo[d])]]
                    /\ UNCHANGED <<level_memo, lpc>>
               ELSE IF DepsGet(d) = {}
                    THEN /\ level_memo' = level_memo @@ (d :> 1)
                         /\ stack' = [stack EXCEPT ![n] =
                               [f EXCEPT !.todo = f.todo \ {d},
                                         !.max = FoldMax(f.max, 1)]]
                         /\ UNCHANGED lpc
                    ELSE IF n >= MaxDepth
                         THEN /\ lpc' = "crashed"
                              /\ UNCHANGED <<level_memo, stack>>
                         ELSE /\ stack' = Append(
                                    [stack EXCEPT ![n] = [f EXCEPT !.todo = f.todo \ {d}]],
                                    [pk |-> d, todo |-> deps[d], max |-> 0])
                              /\ UNCHANGED <<level_memo, lpc>>
    /\ UNCHANGED <<deps, called>>
    /\ UNCHANGED <<aggVars, pushVars, netVars>>

\* The innermost frame has seen all its dependencies: it stores its level
\* and returns it to its caller.
GetLevelReturn ==
    /\ lpc = "run"
    /\ stack # <<>>
    /\ LET n == Len(stack)
           f == stack[n]
           lvl == LevelFromDeps(f.max)
       IN /\ f.todo = {}
          /\ level_memo' = level_memo @@ (f.pk :> lvl)
          /\ stack' = IF n = 1 THEN <<>>
                      ELSE [SubSeq(stack, 1, n - 1) EXCEPT ![n - 1] =
                               [stack[n - 1] EXCEPT !.max = FoldMax(stack[n - 1].max, lvl)]]
    /\ UNCHANGED <<deps, called, lpc>>
    /\ UNCHANGED <<aggVars, pushVars, netVars>>

\* The loop of main has passed every pk to get_level.
MainDone ==
    /\ lpc = "run"
    /\ stack = <<>>
    /\ called = all_parts
    /\ lpc' = "done"
    /\ UNCHANGED <<deps, level_memo, stack, called>>
    /\ UNCHANGED <<aggVars, pushVars, netVars>>

NextLevel ==
    \/ \E pk \in all_parts : MainCall(pk)
    \/ GetLevelDep
    \/ GetLevelReturn
    \/ MainDone

SpecLevel == InitLevel /\ [][NextLevel]_vars

\* the largest element of a non-empty set of levels
SetMax(S) == CHOOSE m \in S : \A x \in S : x <= m

\* C1: level monotonicity.  For an acyclic graph, once get_level has been
\* called for every part, every edge a -> b has level(a) > level(b); hence no
\* edge joins two parts of the same level.
LevelMonotone ==
    (Acyclic /\ lpc = "done") =>
        \A a \in all_parts : \A b \in deps[a] :
            /\ a \in DOMAIN level_memo
            /\ b \in DOMAIN level_memo
            /\ level_memo[a] > level_memo[b]

\* C1 witness: a finished run over a chain of two edges, levels 3 > 2 > 1.
LevelMonotoneWitness ==
    /\ lpc = "done"
    /\ \E a, b, c \in all_parts :
          /\ b \in deps[a] /\ c \in deps[b]
          /\ level_memo[a] = 3 /\ level_memo[b] = 2 /\ level_memo[c] = 1

\* C2: level formula.  In an acyclic graph every level stored in the memo
\* table is 1 for a part without dependencies and otherwise exactly one more
\* than the largest level of its dependencies, at every moment of the run
\* (so whatever the earlier calls left in the memo table).
LevelFormula ==
    Acyclic =>
        \A x \in DOMAIN level_memo :
            IF DepsGet(x) = {}
            THEN level_memo[x] = 1
            ELSE /\ deps[x] \subseteq DOMAIN level_memo
                 /\ level_memo[x] = 1 + SetMax({level_memo[d] : d \in deps[x]})

\* C2 witness: a part with two dependencies of different levels, computed
\* by a call that found one of them in the memo table of an earlier call.
LevelFormulaWitness ==
    /\ lpc = "done"
    /\ \E x, d, e \in all_parts :
          /\ deps[x] = {d, e}
          /\ level_memo[d] = 1 /\ level_memo[e] = 2 /\ level_memo[x] = 3

\* the graph holds the cycle A -> B -> C -> A and D has no edges
CycleABC ==
    /\ HasCycleABC(deps)
    /\ deps["D"] = {}
    /\ \A pk \in all_parts : "D" \notin deps[pk]

\* C3: cycle safety.  With the edges A -> B -> C -> A the level assignment
\* ends without crashing, and the unrelated part D has level 1 when it ends.
CycleSafety ==
    CycleABC =>
        /\ lpc # "crashed"
        /\ (lpc \in {"done", "crashed"} =>
               ("D" \in DOMAIN level_memo /\ level_memo["D"] = 1))

(***************************************************************************)
(* Price-break aggregation of fetch_suppliers                              *)
(***************************************************************************)

\* Largest number of raw price-break rows the remote lists for one
\* supplier part.
MaxRows == 3

\* The values of the fields of a raw row.  'updated' is a timestamp string
\* compared as a string; 0 stands for the empty string of a row without the
\* field, which is smaller than every timestamp.
Quantities == {1, 10}
Prices == {5, 7}
Currencies == {"USD", "EUR"}
UpdatedMarks == {0, 1, 2}

RawRows == [quantity : Quantities, price : Prices,
            price_currency : Currencies, updated : UpdatedMarks]

\* a plausible slip: the oldest row wins
OlderFirst(best, pb) == pb.updated < best.updated

\* max(pbs, key=updated) keeps the row it holds unless the next one has a
\* strictly greater key
NewerThan(best, pb) == pb.updated > best.updated

\* pb_by_quantity[q]: the rows of quantity q, in the order of the listing
RowsOfQuantity(rows, q) ==
    LET Same(pb) == pb.quantity = q IN SelectSeq(rows, Same)

\* the keys of pb_by_quantity in insertion order (first occurrence)
RECURSIVE KeysInOrder(_)
KeysInOrder(rows) ==
    IF rows = <<>> THEN <<>>
    ELSE LET n == Len(rows)
             before == KeysInOrder(SubSeq(rows, 1, n - 1))
             q == rows[n].quantity
         IN IF \E i \in 1..Len(before) : before[i] = q
            THEN before ELSE Append(before, q)

\* selected = max(pbs, key=lambda x: x.get('updated', ''))
RECURSIVE SelectMax(_)
SelectMax(pbs) ==
    IF Len(pbs) = 1 THEN pbs[1]
    ELSE LET n == Len(pbs)
             best == SelectMax(SubSeq(pbs, 1, n - 1))
         IN IF NewerThan(best, pbs[n]) THEN pbs[n] ELSE best

\* the row appended to sp_details['price_breaks'] for quantity q
Emitted(rows, q) ==
    LET selected == SelectMax(RowsOfQuantity(rows, q))
    IN [quantity |-> q, price |-> selected.price,
        price_currency |-> selected.price_currency]

\* a plausible slip: the rows stay in the order of the dict of quantities
SortNothing(rows) == rows

\* list.sort(key=lambda x: x['quantity']): stable, ascending
RECURSIVE SortByQuantity(_)
SortByQuantity(rows) ==
    IF rows = <<>> THEN <<>>
    ELSE LET n == Len(rows)
             sorted == SortByQuantity(SubSeq(rows, 1, n - 1))
             x == rows[n]
             k == Cardinality({i \in 1..Len(sorted) : sorted[i].quantity <= x.quantity})
         IN SubSeq(sorted, 1, k) \o <<x>> \o SubSeq(sorted, k + 1, Len(sorted))

\* the price_breaks list fetch_suppliers builds from the raw rows
Aggregate(rows) ==
    LET keys == KeysInOrder(rows)
    IN SortByQuantity([i \in 1..Len(keys) |-> Emitted(rows, keys[i])])

InitAgg ==
    /\ price_breaks \in UNION {[1..n -> RawRows] : n \in 0..MaxRows}
    /\ sp_price_breaks = <<>>
    /\ apc = "fetch"
    /\ IdleLevel
    /\ IdlePush
    /\ IdleNet

\* the body of the loop of fetch_suppliers for one supplier part
FetchSuppliers ==
    /\ apc = "fetch"
    /\ sp_price_breaks' = Aggregate(price_breaks)
    /\ apc' = "done"
    /\ UNCHANGED price_breaks
    /\ UNCHANGED <<levelVars, pushVars, netVars>>

NextAgg == FetchSuppliers

SpecAgg == InitAgg /\ [][NextAgg]_vars

\* the positions of the emitted rows of quantity q
EmittedAt(q) == {i \in 1..Len(sp_price_breaks) : sp_price_breaks[i].quantity = q}

\* the raw rows of quantity q
RawAt(q) == {i \in 1..Len(price_breaks) : price_breaks[i].quantity = q}

\* C8: price-break dedup.  After the aggregation there is exactly one
\* emitted row for each quantity of the input (and none for any other
\* quantity), and its price and currency are those of an input row of that
\* quantity whose 'updated' marker is the largest among the rows of that
\* quantity.
PriceBreakDedup ==
    apc = "done" =>
        \A q \in Quantities :
            IF RawAt(q) = {}
            THEN EmittedAt(q) = {}
            ELSE /\ Cardinality(EmittedAt(q)) = 1
                 /\ \E i \in RawAt(q) : \E j \in EmittedAt(q) :
                      /\ \A k \in RawAt(q) :
                           price_breaks[k].updated <= price_breaks[i].updated
                      /\ sp_price_breaks[j].price = price_breaks[i].price
                      /\ sp_price_breaks[j].price_currency = price_breaks[i].price_currency

\* C8 witness: three raw rows of one quantity, the newest in the middle and
\* priced differently from the other two; the emitted row has its price.
PriceBreakDedupWitness ==
    /\ apc = "done"
    /\ Len(price_breaks) = 3
    /\ \A i \in 1..3 : price_breaks[i].quantity = 10
    /\ price_breaks[1].updated = 1 /\ price_breaks[2].updated = 2
    /\ price_breaks[3].updated = 0
    /\ price_breaks[2].price = 7 /\ price_breaks[1].price = 5
    /\ price_breaks[3].price = 5
    /\ Len(sp_price_breaks) = 1
    /\ sp_price_breaks[1].price = 7

(***************************************************************************)
(* Push runs: json_to_inv-pts.py and json_to_inv-parts.py                  *)
(***************************************************************************)

\* Python's None where a string is expected, and None where a pk is expected.
None == "None"
NoPk == 0

\* The pk the remote gives to the first row created during the runs; the
\* rows of the initial remote have smaller pks.
FirstNewPk == 10

\* Largest number of part files in the corpus of a run.
MaxFiles == 3

\* The level directories of the corpus (data/pts/<level>/..., data/parts/<level>/...).
Levels == {1, 2}

\* Largest number of price breaks of one supplier in a part file.
MaxBreaks == 2

\* Largest number of lines of one .bom.json file.
MaxLines == 2

Names == {"Leg", "Table"}
Revs == {"", "A"}

\* The folder of every part file below its level directory.
FolderPath == <<"Furniture">>

\* Position of a name, and of a revision suffix, in the order of sorted():
\* "Leg..." < "Table...", and "Leg.A.json" < "Leg.json" ('A' < 'j').
NameRank(name) == IF name = "Leg" THEN 1 ELSE 2
RevRank(rev) == IF rev = "" THEN 2 ELSE 1

\* Order of two paths <root>/<level>/Furniture/<name>[.<rev>].json as
\* strings.  The levels of the model have one digit, so that their string
\* order is their numeric order.
PathLess(f, g) ==
    \/ f.level < g.level
    \/ /\ f.level = g.level
       /\ \/ NameRank(f.name) < NameRank(g.name)
          \/ /\ f.name = g.name
             /\ RevRank(f.rev) < RevRank(g.rev)

\* sorted(set(files))
RECURSIVE SortedFiles(_)
SortedFiles(S) ==
    IF S = {} THEN <<>>
    ELSE LET m == CHOOSE x \in S : \A y \in S : x = y \/ PathLess(x, y)
         IN <<m>> \o SortedFiles(S \ {m})

\* The files of a sorted list in the order of "for key, group in
\* grouped.items(): for f in group": the keys in the order of their first
\* file, the files of one key together.
RECURSIVE GroupByName(_)
GroupByName(files) ==
    IF files = <<>> THEN <<>>
    ELSE LET Same(f) == f.name = files[1].name
             Other(f) == f.name # files[1].name
         IN SelectSeq(files, Same) \o GroupByName(SelectSeq(files, Other))

\* json_to_inv-parts.py main: all files sorted, grouped by name alone.
PartsOrder(S) == GroupByName(SortedFiles(S))

\* a plausible slip: the groups with more than one file are left out
PtsLevelOrderSkipConflicts(level_files) ==
    LET Single(f) == Cardinality({g \in level_files : g.name = f.name}) = 1
    IN SelectSeq(GroupByName(SortedFiles(level_files)), Single)

\* json_to_inv-pts.py main, one level: key_to_files in insertion order
PtsLevelOrder(level_files) == GroupByName(SortedFiles(level_files))

\* json_to_inv-pts.py main: for level in sorted(all_levels)
RECURSIVE PtsOrderFrom(_, _)
PtsOrderFrom(S, levels) ==
    IF levels = {} THEN <<>>
    ELSE LET level == CHOOSE l \in levels : \A m \in levels : l <= m
         IN PtsLevelOrder({f \in S : f.level = level})
              \o PtsOrderFrom(S, levels \ {level})

PtsOrder(S) == PtsOrderFrom(S, {f.level : f \in S})

\* keys of key_to_files with more than one file, at one level
ConflictKeys(S, level) ==
    {<<level, f.name>> : f \in {g \in S : /\ g.level = level
                                          /\ \E h \in S : /\ h.level = level
                                                          /\ h.name = g.name
                                                          /\ h # g}}

\* rows of a set in the order of the remote listing (by pk)
RECURSIVE ByPk(_)
ByPk(S) ==
    IF S = {} THEN <<>>
    ELSE LET m == CHOOSE x \in S : \A y \in S : x.pk <= y.pk
         IN <<m>> \o ByPk(S \ {m})

\* cache = defaultdict(list); for p in all_parts: cache[p["name"]].append(p)
BuildCache(parts) ==
    [name \in {p.name : p \in parts} |-> ByPk({p \in parts : p.name = name})]

\* cache.get(name, [])
CacheGet(c, name) == IF name \in DOMAIN c THEN c[name] ELSE <<>>

\* cache[name].append(record)
\* a plausible slip: the created record is not put into the cache
CacheAppendNothing(c, name, rec) == c

\* cache[name].append(rec)
CacheAppend(c, name, rec) ==
    [n \in DOMAIN c \cup {name} |-> IF n = name THEN Append(CacheGet(c, name), rec) ELSE c[n]]

\* cache[name] = [p for p in cache[name] if p['pk'] != pk]
CacheRemove(c, name, pk) ==
    LET Keep(p) == p.pk # pk
    IN IF name \in DOMAIN c
       THEN [n \in DOMAIN c |-> IF n = name THEN SelectSeq(c[n], Keep) ELSE c[n]]
       ELSE c

\* a plausible slip: the revision is not compared
CheckPartExistsAnyRevision(c, name, revision, ipn) ==
    LET Match(res) == ipn = None \/ res.IPN = ipn
    IN SelectSeq(CacheGet(c, name), Match)

\* json_to_inv-pts.py check_part_exists(cache, name, revision, ipn)
CheckPartExists(c, name, revision, ipn) ==
    LET Match(res) == /\ (revision = None \/ res.revision = revision)
                      /\ (ipn = None \/ res.IPN = ipn)
    IN SelectSeq(CacheGet(c, name), Match)

\* json_to_inv-parts.py push_part_group: existing = [p for p in cache.get(name, [])
\*     if p IPN == payload IPN and p revision == (revision or "")]
FindExisting(c, name, revision, ipn) ==
    LET Match(p) == p.IPN = ipn /\ p.revision = revision
    IN SelectSeq(CacheGet(c, name), Match)

\* check_category_exists(name, parent_pk): the parent is part of the query
\* only when it is not None
CheckCategoryExists(cats, name, parent_pk) ==
    ByPk({c \in cats : c.name = name /\ (parent_pk = NoPk \/ c.parent = parent_pk)})

\* create_category_hierarchy: walk the folder path from the root, taking the
\* first category found for a segment and creating it when there is none.
RECURSIVE CategoryWalk(_, _, _, _)
CategoryWalk(path, cats, curpk, nxt) ==
    IF path = <<>> THEN [cats |-> cats, pk |-> curpk, next |-> nxt]
    ELSE LET found == CheckCategoryExists(cats, path[1], curpk)
         IN IF found # <<>>
            THEN CategoryWalk(Tail(path), cats, found[1].pk, nxt)
            ELSE CategoryWalk(Tail(path),
                              cats \cup {[pk |-> nxt, name |-> path[1], parent |-> curpk]},
                              nxt, nxt + 1)

\* The remote deletes a part together with the rows that refer to it.
RemoteWithout(pks, st) ==
    LET sps == {sp \in st.sps : sp.part \notin pks}
    IN [st EXCEPT !.parts = {p \in st.parts : p.pk \notin pks},
                  !.sps = sps,
                  !.pbs = {pb \in st.pbs : pb.part \in {sp.pk : sp \in sps}},
                  !.boms = {b \in st.boms : b.part \notin pks /\ b.sub_part \notin pks}]

\* ---- the corpora and remote states the runs start from ----

File(level, name, rev, suppliers, has_bom, bom) ==
    [level |-> level, name |-> name, rev |-> rev, IPN |-> "",
     purchaseable |-> suppliers # <<>>, suppliers |-> suppliers,
     has_bom |-> has_bom, bom |-> bom]

RemotePart(pk, name, rev, vb) ==
    [pk |-> pk, name |-> name, revision |-> rev, IPN |-> "",
     category |-> 1, validated_bom |-> vb]

CatFurniture == [pk |-> 1, name |-> "Furniture", parent |-> NoPk]
Acme == [pk |-> 5, name |-> "Acme"]

LocalBreaks == [quantity : Quantities, price : Prices, price_currency : {"USD"}]

LocalLines == {l \in [sub_name : {"Leg", "Bolt"}, sub_revision : Revs, sub_IPN : {""},
                        quantity : {4}, validated : BOOLEAN] :
                  l.sub_name = "Bolt" => l.sub_revision = ""}

SeqsUpTo(S, n) == UNION {[1..k -> S] : k \in 0..n}

\* Files without suppliers and without BOM, at any level, of any name and
\* revision; a remote that holds no part, or Leg with or without revision.
InitNames ==
    /\ corpus \in {S \in SUBSET {File(l, n, r, <<>>, FALSE, <<>>) :
                                    l \in Levels, n \in Names, r \in Revs} :
                      S # {} /\ Cardinality(S) <= MaxFiles}
    /\ r_parts \in {{}, {RemotePart(2, "Leg", "", FALSE)}, {RemotePart(3, "Leg", "A", FALSE)}}
    /\ r_categories \in {{}, {CatFurniture}}
    /\ r_parts # {} => r_categories # {}
    /\ r_companies = {} /\ r_sps = {} /\ r_pbs = {} /\ r_boms = {}
    /\ force \in BOOLEAN /\ clean \in BOOLEAN /\ (clean => force)
    /\ force_price = FALSE /\ r_strict = FALSE

\* One purchaseable part with one supplier and its price breaks; a remote
\* that may already hold the part, its supplier part and one price break per
\* quantity.
InitSuppliers ==
    /\ \E pbs \in SeqsUpTo(LocalBreaks, MaxBreaks) :
         corpus = {File(1, "Leg", "", <<[supplier_name |-> "Acme", SKU |-> "S1",
                                          price_breaks |-> pbs]>>, FALSE, <<>>)}
    /\ r_categories = {CatFurniture}
    /\ r_companies \in {{}, {Acme}}
    /\ r_parts \in {{}, {RemotePart(2, "Leg", "", FALSE)}}
    /\ r_sps \in {{}, {[pk |-> 4, part |-> 2, supplier |-> 5, SKU |-> "S1"]}}
    /\ r_sps # {} => (r_parts # {} /\ r_companies # {})
    /\ r_pbs \in SUBSET {[pk |-> 6, part |-> 4, quantity |-> 1, price |-> 5, price_currency |-> "USD"],
                         [pk |-> 7, part |-> 4, quantity |-> 10, price |-> 7, price_currency |-> "USD"]}
    /\ r_pbs # {} => r_sps # {}
    /\ r_boms = {}
    /\ force = FALSE /\ clean = FALSE
    /\ force_price \in BOOLEAN /\ r_strict \in BOOLEAN

\* A part Leg at level 1 and an assembly Table at level 2 with a BOM; a
\* remote that may already hold both, validated or not, and a BOM line.
InitBom ==
    /\ \E rev \in Revs, bom \in SeqsUpTo(LocalLines, MaxLines) :
         corpus = {File(1, "Leg", rev, <<>>, FALSE, <<>>),
                   File(2, "Table", "", <<>>, TRUE, bom)}
    /\ r_categories = {CatFurniture}
    /\ r_companies = {} /\ r_sps = {} /\ r_pbs = {}
    /\ \E vt \in BOOLEAN :
         r_parts \in {{}, {RemotePart(2, "Leg", "", FALSE), RemotePart(3, "Table", "", vt)}}
    /\ r_boms \in {{}, {[pk |-> 8, part |-> 3, sub_part |-> 2, quantity |-> 2, validated |-> FALSE]}}
    /\ r_boms # {} => r_parts # {}
    /\ force = FALSE /\ clean = FALSE /\ force_price = FALSE
    /\ r_strict \in BOOLEAN

InitPush ==
    /\ script \in {"pts", "parts"}
    /\ InitNames \/ InitSuppliers \/ InitBom
    /\ next_pk = FirstNewPk
    /\ cache = <<>> /\ queue = <<>> /\ cur = <<>>
    /\ part_pk = NoPk /\ cat_pk = NoPk /\ existing = <<>>
    /\ ppc = "start" /\ run = 1
    /\ attempted = {} /\ failed = {} /\ warned = {} /\ posts = {}
    /\ vb_writes = {} /\ snapshot = <<>> /\ run1_ok = FALSE
    /\ IdleLevel /\ IdleAgg /\ IdleNet

\* the remote rows as one value
Remote == [categories |-> r_categories, parts |-> r_parts, companies |-> r_companies,
           sps |-> r_sps, pbs |-> r_pbs, boms |-> r_boms]

\* ---- main ----

\* main, up to the loop over the files: the cache is built from the listing
\* of all remote parts and the files are collected and ordered.
StartRun ==
    /\ ppc = "start"
    /\ cache' = BuildCache(r_parts)
    /\ queue' = IF script = "pts" THEN PtsOrder(corpus) ELSE PartsOrder(corpus)
    /\ ppc' = "main"
    /\ UNCHANGED <<cur, part_pk, cat_pk, existing, run>>
    /\ UNCHANGED <<flagVars, remoteVars, histVars, levelVars, aggVars, netVars>>

\* The push of the next file starts: (pts: the warnings of its level are
\* printed;) the payload is built and the category of its folder is
\* resolved or created.
BeginFile ==
    /\ ppc = "main"
    /\ queue # <<>>
    /\ LET f == Head(queue)
           w == CategoryWalk(FolderPath, r_categories, NoPk, next_pk)
       IN /\ cur' = <<f>>
          /\ queue' = Tail(queue)
          /\ warned' = IF script = "pts"
                       THEN warned \cup ConflictKeys(corpus, f.level)
                       ELSE warned
          /\ r_categories' = w.cats
          /\ next_pk' = w.next
          /\ cat_pk' = w.pk
          /\ posts' = IF w.next # next_pk THEN posts \cup {"category"} ELSE posts
    /\ part_pk' = NoPk
    /\ existing' = <<>>
    /\ ppc' = "identity"
    /\ UNCHANGED <<cache, run, flagVars, levelVars, aggVars, netVars>>
    /\ UNCHANGED <<r_parts, r_companies, r_sps, r_pbs, r_boms>>
    /\ UNCHANGED <<attempted, failed, vb_writes, snapshot, run1_ok>>

\* the push of the current file ends; main goes on with the next file
EndItem(isFailed) ==
    /\ attempted' = attempted \cup {cur[1]}
    /\ failed' = IF isFailed THEN failed \cup {cur[1]} ELSE failed
    /\ cur' = <<>>
    /\ ppc' = "main"

\* sys.exit(1) or an uncaught exception: the run stops
ExitRun ==
    /\ attempted' = attempted \cup {cur[1]}
    /\ failed' = failed \cup {cur[1]}
    /\ cur' = <<>>
    /\ ppc' = "exit"

\* a plausible slip: the pk used downstream is not the pk of the created row
NewPartOtherPk(f, pk, cat) ==
    [pk |-> pk + 100, name |-> f.name, revision |-> f.rev, IPN |-> f.IPN,
     category |-> cat, validated_bom |-> FALSE]

\* the record the remote creates for the payload of a part file
NewPart(f, pk, cat) ==
    [pk |-> pk, name |-> f.name, revision |-> f.rev, IPN |-> f.IPN,
     category |-> cat, validated_bom |-> FALSE]

\* json_to_inv-pts.py delete_part for every record of 'existing'
RECURSIVE PtsDeleteLoop(_, _, _, _, _)
PtsDeleteLoop(ex, i, oks, confirms, st) ==
    IF i > Len(ex) \/ st.crashed THEN st
    ELSE LET p == ex[i]
             depRows == {b \in st.boms : b.part = p.pk}
         IN IF ~clean \/ (depRows # {} /\ ~confirms[i])
            THEN [st EXCEPT !.crashed = TRUE]
            ELSE LET st1 == [st EXCEPT !.boms = st.boms \ depRows]
                     st2 == IF oks[i] THEN RemoteWithout({p.pk}, st1) ELSE st1
                 IN PtsDeleteLoop(ex, i + 1, oks, confirms,
                        [st2 EXCEPT !.cache = CacheRemove(st2.cache, p.name, p.pk)])

\* json_to_inv-pts.py push_part, from the existence check to the creation
PtsPushIdentity ==
    /\ script = "pts"
    /\ ppc = "identity"
    /\ LET f == cur[1]
           ex == CheckPartExists(cache, f.name, IF f.rev # "" THEN f.rev ELSE None, f.IPN)
       IN /\ existing' = ex
          /\ IF ex # <<>> /\ force
             THEN \E oks \in [1..Len(ex) -> BOOLEAN], confirms \in [1..Len(ex) -> BOOLEAN] :
                    LET st == PtsDeleteLoop(ex, 1, oks, confirms,
                                  [parts |-> r_parts, sps |-> r_sps, pbs |-> r_pbs,
                                   boms |-> r_boms, cache |-> cache, crashed |-> FALSE])
                    IN /\ r_parts' = st.parts /\ r_sps' = st.sps
                       /\ r_pbs' = st.pbs /\ r_boms' = st.boms
                       /\ cache' = st.cache
                       /\ IF st.crashed THEN ExitRun ELSE EndItem(FALSE)
                       /\ UNCHANGED <<part_pk, next_pk, posts>>
             ELSE IF ex # <<>>
                  THEN /\ part_pk' = ex[1].pk
                       /\ ppc' = "suppliers"
                       /\ UNCHANGED <<r_parts, r_sps, r_pbs, r_boms, cache, next_pk,
                                      posts, attempted, failed, cur>>
                  ELSE /\ posts' = posts \cup {"part"}
                       /\ \E ok \in BOOLEAN :
                            IF ok
                            THEN /\ r_parts' = r_parts \cup {NewPart(f, next_pk, cat_pk)}
                                 /\ next_pk' = next_pk + 1
                                 /\ cache' = CacheAppend(cache, f.name, NewPart(f, next_pk, cat_pk))
                                 /\ part_pk' = next_pk
                                 /\ ppc' = "suppliers"
                                 /\ UNCHANGED <<attempted, failed, cur>>
                            ELSE /\ EndItem(TRUE)
                                 /\ UNCHANGED <<r_parts, next_pk, cache, part_pk>>
                       /\ UNCHANGED <<r_sps, r_pbs, r_boms>>
    /\ UNCHANGED <<queue, cat_pk, run, flagVars, levelVars, aggVars, netVars>>
    /\ UNCHANGED <<r_categories, r_companies, warned, vb_writes, snapshot, run1_ok>>

\* the records of 'existing' that api_delete removes before one fails
DeletedBeforeFailure(ex, oks) ==
    {ex[i].pk : i \in {j \in 1..Len(ex) : \A k \in 1..j : oks[k]}}

\* json_to_inv-parts.py push_part_group, from 'Find existing part' to
\* 'Update cache'
PartsPushIdentity ==
    /\ script = "parts"
    /\ ppc = "identity"
    /\ LET f == cur[1]
           ex == FindExisting(cache, f.name, f.rev, f.IPN)
       IN /\ existing' = ex
          /\ IF ex # <<>> /\ ~force
             THEN \* PATCH of the existing part with the payload
                  /\ r_parts' = {IF p.pk = ex[1].pk THEN [p EXCEPT !.category = cat_pk] ELSE p :
                                    p \in r_parts}
                  /\ part_pk' = ex[1].pk
                  /\ cache' = [cache EXCEPT ![f.name] =
                                  Append(CacheRemove(cache, f.name, ex[1].pk)[f.name], ex[1])]
                  /\ ppc' = "suppliers"
                  /\ UNCHANGED <<r_sps, r_pbs, r_boms, next_pk, posts, attempted, failed, cur>>
             ELSE \E oks \in [1..Len(ex) -> BOOLEAN], ok \in BOOLEAN :
                    LET st == RemoteWithout(DeletedBeforeFailure(ex, oks),
                                  [parts |-> r_parts, sps |-> r_sps, pbs |-> r_pbs,
                                   boms |-> r_boms])
                        deleted_all == \A i \in 1..Len(ex) : oks[i]
                    IN /\ r_sps' = st.sps /\ r_pbs' = st.pbs /\ r_boms' = st.boms
                       /\ IF ~deleted_all
                          THEN /\ r_parts' = st.parts
                               /\ ExitRun
                               /\ UNCHANGED <<next_pk, cache, part_pk, posts>>
                          ELSE /\ posts' = posts \cup {"part"}
                               /\ IF ok
                                  THEN /\ r_parts' = st.parts \cup {NewPart(f, next_pk, cat_pk)}
                                       /\ next_pk' = next_pk + 1
                                       /\ cache' = CacheAppend(cache, f.name,
                                                               NewPart(f, next_pk, cat_pk))
                                       /\ part_pk' = next_pk
                                       /\ ppc' = "suppliers"
                                       /\ UNCHANGED <<attempted, failed, cur>>
                                  ELSE /\ r_parts' = st.parts
                                       /\ ExitRun
                                       /\ UNCHANGED <<next_pk, cache, part_pk>>
    /\ UNCHANGED <<queue, cat_pk, run, flagVars, levelVars, aggVars, netVars>>
    /\ UNCHANGED <<r_categories, r_companies, warned, vb_writes, snapshot, run1_ok>>

\* ---- suppliers and price breaks ----

\* requests.post / api_post of a price break for supplier part sp_pk; the
\* strict remote answers 400 when the supplier part already has a row of
\* that quantity, which both scripts turn into sys.exit(1)
PostPriceBreak(st, sp_pk, pb) ==
    IF r_strict /\ \E r \in st.pbs : r.part = sp_pk /\ r.quantity = pb.quantity
    THEN [st EXCEPT !.exit = TRUE, !.posts = @ \cup {"pb"}]
    ELSE [st EXCEPT !.pbs = @ \cup {[pk |-> st.next, part |-> sp_pk,
                                     quantity |-> pb.quantity, price |-> pb.price,
                                     price_currency |-> pb.price_currency]},
                    !.next = @ + 1,
                    !.posts = @ \cup {"pb"}]

\* POST of a supplier part; the strict remote answers 400 when the part
\* already has a supplier part of that supplier and SKU
PostSupplierPart(st, ppk, supplier_pk, sku) ==
    IF r_strict /\ \E sp \in st.sps : sp.part = ppk /\ sp.supplier = supplier_pk /\ sp.SKU = sku
    THEN [st EXCEPT !.exit = TRUE, !.posts = @ \cup {"sp"}]
    ELSE [st EXCEPT !.sps = @ \cup {[pk |-> st.next, part |-> ppk,
                                     supplier |-> supplier_pk, SKU |-> sku]},
                    !.next = @ + 1,
                    !.posts = @ \cup {"sp"}]

\* json_to_inv-pts.py: unique_pbs, the first price break of every quantity
RECURSIVE UniqueByQuantity(_)
UniqueByQuantity(pbs) ==
    IF pbs = <<>> THEN <<>>
    ELSE LET n == Len(pbs)
             before == UniqueByQuantity(SubSeq(pbs, 1, n - 1))
         IN IF \E i \in 1..Len(before) : before[i].quantity = pbs[n].quantity
            THEN before ELSE Append(before, pbs[n])

\* json_to_inv-pts.py: 'Create or update price breaks'.  existing_pbs is the
\* listing fetched before the loop; of two listed rows of one quantity the
\* dict existing_by_quantity keeps the last.
RECURSIVE PtsPriceBreakLoop(_, _, _, _, _)
PtsPriceBreakLoop(pbs, i, sp_pk, existing_pbs, st) ==
    IF i > Len(pbs) \/ st.exit THEN st
    ELSE LET pb == pbs[i]
             same == ByPk({r \in existing_pbs : r.quantity = pb.quantity})
         IN IF same # <<>>
            THEN LET existing_pb == same[Len(same)]
                 IN IF existing_pb.price # pb.price \/ existing_pb.price_currency # pb.price_currency
                    THEN PtsPriceBreakLoop(pbs, i + 1, sp_pk, existing_pbs,
                            [st EXCEPT !.pbs = {IF r.pk = existing_pb.pk
                                                THEN [r EXCEPT !.price = pb.price,
                                                               !.price_currency = pb.price_currency]
                                                ELSE r : r \in st.pbs}])
                    ELSE PtsPriceBreakLoop(pbs, i + 1, sp_pk, existing_pbs, st)
            ELSE PtsPriceBreakLoop(pbs, i + 1, sp_pk, existing_pbs,
                                   PostPriceBreak(st, sp_pk, pb))

\* json_to_inv-pts.py push_part: one supplier of the part file
PtsSupplier(supplier, ppk, st) ==
    LET sup_results == ByPk({c \in st.companies : c.name = supplier.supplier_name})
    IN IF sup_results = <<>> THEN [st EXCEPT !.exit = TRUE]
       ELSE LET st1 == PostSupplierPart(st, ppk, sup_results[1].pk, supplier.SKU)
                sp_pk == st.next
                existing_pbs == {r \in st1.pbs : r.part = sp_pk}
                st2 == IF force_price
                       THEN [st1 EXCEPT !.pbs = st1.pbs \ existing_pbs]
                       ELSE st1
            IN IF st1.exit THEN st1
               ELSE PtsPriceBreakLoop(UniqueByQuantity(supplier.price_breaks), 1, sp_pk,
                                      IF force_price THEN {} ELSE existing_pbs, st2)

\* json_to_inv-parts.py get_or_create_company
GetOrCreateCompany(st, name) ==
    LET companies == ByPk({c \in st.companies : c.name = name})
    IN IF companies # <<>> THEN [st |-> st, pk |-> companies[1].pk]
       ELSE [st |-> [st EXCEPT !.companies = @ \cup {[pk |-> st.next, name |-> name]},
                               !.next = @ + 1,
                               !.posts = @ \cup {"company"}],
             pk |-> st.next]

\* json_to_inv-parts.py get_or_create_supplier_part
GetOrCreateSupplierPart(st0, ppk, supplier) ==
    LET c == GetOrCreateCompany(st0, supplier.supplier_name)
        st == c.st
        found == ByPk({sp \in st.sps : /\ sp.part = ppk
                                       /\ sp.supplier = c.pk
                                       /\ (supplier.SKU = "" \/ sp.SKU = supplier.SKU)})
    IN IF found # <<>> THEN [st |-> st, pk |-> found[1].pk]
       ELSE [st |-> PostSupplierPart(st, ppk, c.pk, supplier.SKU), pk |-> st.next]

\* a plausible slip: nothing is skipped
KnownKeyNever(existing_keys, pb) == FALSE

\* json_to_inv-parts.py sync_price_breaks: 'if key in existing_keys'
KnownKey(existing_keys, pb) ==
    <<pb.quantity, pb.price, pb.price_currency>> \in existing_keys

\* json_to_inv-parts.py sync_price_breaks: the loop over the price breaks of
\* the file; existing_keys is computed once, before the loop
RECURSIVE PartsPriceBreakLoop(_, _, _, _, _)
PartsPriceBreakLoop(pbs, i, sp_pk, existing_keys, st) ==
    IF i > Len(pbs) \/ st.exit THEN st
    ELSE IF KnownKey(existing_keys, pbs[i])
         THEN PartsPriceBreakLoop(pbs, i + 1, sp_pk, existing_keys, st)
         ELSE PartsPriceBreakLoop(pbs, i + 1, sp_pk, existing_keys,
                                  PostPriceBreak(st, sp_pk, pbs[i]))

\* a plausible slip: the listed rows are deleted whatever the flag says
SyncPriceBreaksAlwaysClear(st, sp_pk, pbs, confirm) ==
    LET rows == {r \in st.pbs : r.part = sp_pk}
    IN PartsPriceBreakLoop(pbs, 1, sp_pk, {}, [st EXCEPT !.pbs = @ \ rows])

\* json_to_inv-parts.py sync_price_breaks
SyncPriceBreaks(st, sp_pk, pbs, confirm) ==
    LET rows == {r \in st.pbs : r.part = sp_pk}
    IN IF force_price /\ rows # {} /\ ~confirm
       THEN st
       ELSE IF force_price
            THEN PartsPriceBreakLoop(pbs, 1, sp_pk, {}, [st EXCEPT !.pbs = @ \ rows])
            ELSE PartsPriceBreakLoop(pbs, 1, sp_pk,
                    {<<r.quantity, r.price, r.price_currency>> : r \in rows}, st)

\* json_to_inv-parts.py push_part_group: one supplier of the part file
PartsSupplier(supplier, ppk, confirm, st) ==
    LET c == GetOrCreateCompany(st, supplier.supplier_name)
        sp == GetOrCreateSupplierPart(c.st, ppk, supplier)
    IN IF sp.st.exit THEN sp.st
       ELSE SyncPriceBreaks(sp.st, sp.pk, supplier.price_breaks, confirm)

RECURSIVE SupplierLoop(_, _, _, _, _)
SupplierLoop(suppliers, i, ppk, confirm, st) ==
    IF i > Len(suppliers) \/ st.exit THEN st
    ELSE SupplierLoop(suppliers, i + 1, ppk, confirm,
                      IF script = "pts"
                      THEN PtsSupplier(suppliers[i], ppk, st)
                      ELSE PartsSupplier(suppliers[i], ppk, confirm, st))

\* push_part / push_part_group: the suppliers of the current file
SyncSuppliers ==
    /\ ppc = "suppliers"
    /\ \E confirm \in BOOLEAN :
         LET f == cur[1]
             st0 == [companies |-> r_companies, sps |-> r_sps, pbs |-> r_pbs,
                     next |-> next_pk, posts |-> posts, exit |-> FALSE]
             st == IF f.purchaseable
                   THEN SupplierLoop(f.suppliers, 1, part_pk, confirm, st0)
                   ELSE st0
         IN /\ r_companies' = st.companies
            /\ r_sps' = st.sps
            /\ r_pbs' = st.pbs
            /\ next_pk' = st.next
            /\ posts' = st.posts
            /\ IF st.exit
               THEN ExitRun
               ELSE /\ ppc' = "bom"
                    /\ UNCHANGED <<cur, attempted, failed>>
    /\ UNCHANGED <<cache, queue, part_pk, cat_pk, existing, run>>
    /\ UNCHANGED <<r_categories, r_parts, r_boms, warned, vb_writes, snapshot, run1_ok>>
    /\ UNCHANGED <<flagVars, levelVars, aggVars, netVars>>

\* ---- BOM ----

\* POST of a BOM line: the remote answers 400 when the sub-part does not
\* exist, and the strict remote when the part already has a line for it
BomPostRejected(boms, ppk, sub_pk) ==
    \/ sub_pk \notin {p.pk : p \in r_parts}
    \/ r_strict /\ \E b \in boms : b.part = ppk /\ b.sub_part = sub_pk

\* json_to_inv-pts.py push_bom: the loop over the lines; existing_boms is
\* the list fetched before the loop, extended by the lines created
RECURSIVE PtsBomLoop(_, _, _, _, _)
PtsBomLoop(tree, i, parent_pk, existing_boms, st) ==
    IF i > Len(tree) THEN st
    ELSE LET node == tree[i]
             sub_parts == CheckPartExists(cache, node.sub_name, None,
                              IF node.sub_IPN # "" THEN node.sub_IPN ELSE None)
         IN IF sub_parts = <<>>
            THEN PtsBomLoop(tree, i + 1, parent_pk, existing_boms, st)
            ELSE LET sub_pk == sub_parts[1].pk
                     Same(b) == b.sub_part = sub_pk
                     found == SelectSeq(existing_boms, Same)
                     row == [pk |-> st.next, part |-> parent_pk, sub_part |-> sub_pk,
                             quantity |-> node.quantity, validated |-> FALSE]
                 IN IF found # <<>>
                    THEN PtsBomLoop(tree, i + 1, parent_pk, existing_boms,
                            [st EXCEPT !.boms = {IF b.pk = found[1].pk
                                                 THEN [b EXCEPT !.quantity = node.quantity]
                                                 ELSE b : b \in st.boms}])
                    ELSE IF BomPostRejected(st.boms, parent_pk, sub_pk)
                         THEN PtsBomLoop(tree, i + 1, parent_pk, existing_boms,
                                 [st EXCEPT !.posts = @ \cup {"bom"}])
                         ELSE PtsBomLoop(tree, i + 1, parent_pk, Append(existing_boms, row),
                                 [st EXCEPT !.boms = @ \cup {row},
                                            !.next = @ + 1,
                                            !.posts = @ \cup {"bom"}])

\* json_to_inv-parts.py push_bom: the sub-parts a line resolves to
BomSubParts(node) ==
    LET candidates == CacheGet(cache, node.sub_name)
        Exact(p) == /\ (p.IPN = node.sub_IPN \/ node.sub_IPN = "")
                    /\ (p.revision = node.sub_revision \/ node.sub_revision = "")
        ByIpn(p) == p.IPN = node.sub_IPN \/ node.sub_IPN = ""
        sub_parts == SelectSeq(candidates, Exact)
    IN IF sub_parts = <<>> /\ node.sub_revision # ""
       THEN SelectSeq(candidates, ByIpn)
       ELSE sub_parts

\* json_to_inv-parts.py push_bom: the loop over the lines; existing_boms is
\* the list fetched before the loop
RECURSIVE PartsBomLoop(_, _, _, _, _)
PartsBomLoop(tree, i, ppk, existing_boms, st) ==
    IF i > Len(tree) \/ st.exit THEN st
    ELSE LET node == tree[i]
             sub_parts == BomSubParts(node)
         IN IF sub_parts = <<>>
            THEN PartsBomLoop(tree, i + 1, ppk, existing_boms,
                    [st EXCEPT !.all_found = FALSE, !.all_validated = FALSE])
            ELSE LET sub_pk == sub_parts[1].pk
                     Same(b) == b.sub_part = sub_pk
                     found == SelectSeq(existing_boms, Same)
                     row == [pk |-> st.next, part |-> ppk, sub_part |-> sub_pk,
                             quantity |-> node.quantity, validated |-> node.validated]
                     st1 == IF found # <<>>
                            THEN [st EXCEPT !.boms = {IF b.pk = found[1].pk
                                                      THEN [b EXCEPT !.quantity = node.quantity,
                                                                     !.validated = node.validated]
                                                      ELSE b : b \in st.boms}]
                            ELSE IF BomPostRejected(st.boms, ppk, sub_pk)
                                 THEN [st EXCEPT !.exit = TRUE, !.posts = @ \cup {"bom"}]
                                 ELSE [st EXCEPT !.boms = @ \cup {row},
                                                 !.next = @ + 1,
                                                 !.posts = @ \cup {"bom"}]
                 IN PartsBomLoop(tree, i + 1, ppk, existing_boms,
                        IF st1.exit \/ node.validated THEN st1
                        ELSE [st1 EXCEPT !.all_validated = FALSE])

\* a plausible slip: the validated flags of the lines are not consulted
BomGateFoundOnly(tree, all_found, all_validated) == tree # <<>> /\ all_found

\* json_to_inv-parts.py push_bom: 'if tree and all_found and all_validated'
BomGate(tree, all_found, all_validated) == tree # <<>> /\ all_found /\ all_validated

\* push_bom for the current file, when it has a .bom.json
PushBom ==
    /\ ppc = "bom"
    /\ LET f == cur[1]
           listed == ByPk({b \in r_boms : b.part = part_pk})
           st0 == [boms |-> r_boms, next |-> next_pk, posts |-> posts, exit |-> FALSE,
                   all_found |-> TRUE, all_validated |-> TRUE]
           st == IF ~f.has_bom THEN st0
                 ELSE IF script = "pts"
                      THEN PtsBomLoop(f.bom, 1, part_pk, listed, st0)
                      ELSE PartsBomLoop(f.bom, 1, part_pk, listed, st0)
           gate == /\ f.has_bom /\ script = "parts" /\ ~st.exit
                   /\ BomGate(f.bom, st.all_found, st.all_validated)
       IN /\ r_boms' = st.boms
          /\ next_pk' = st.next
          /\ posts' = st.posts
          /\ r_parts' = IF gate
                        THEN {IF p.pk = part_pk THEN [p EXCEPT !.validated_bom = TRUE] ELSE p :
                                 p \in r_parts}
                        ELSE r_parts
          /\ vb_writes' = IF gate THEN vb_writes \cup {part_pk} ELSE vb_writes
          /\ IF st.exit THEN ExitRun ELSE EndItem(FALSE)
    /\ UNCHANGED <<cache, queue, part_pk, cat_pk, existing, run>>
    /\ UNCHANGED <<r_categories, r_companies, r_sps, r_pbs, warned, snapshot, run1_ok>>
    /\ UNCHANGED <<flagVars, levelVars, aggVars, netVars>>

\* main has pushed every file: 'Push complete!'
FinishRun ==
    /\ ppc = "main"
    /\ queue = <<>>
    /\ ppc' = "done"
    /\ UNCHANGED <<cache, queue, cur, part_pk, cat_pk, existing, run>>
    /\ UNCHANGED <<flagVars, remoteVars, histVars, levelVars, aggVars, netVars>>

\* The script is started again over the same corpus, with the same flags.
Rerun ==
    /\ ppc \in {"done", "exit"}
    /\ run = 1
    /\ run' = 2
    /\ ppc' = "start"
    /\ cache' = <<>> /\ queue' = <<>> /\ cur' = <<>>
    /\ part_pk' = NoPk /\ cat_pk' = NoPk /\ existing' = <<>>
    /\ attempted' = {} /\ failed' = {} /\ warned' = {} /\ posts' = {}
    /\ vb_writes' = {}
    /\ snapshot' = <<Remote>>
    /\ run1_ok' = (ppc = "done" /\ failed = {})
    /\ UNCHANGED <<flagVars, remoteVars, levelVars, aggVars, netVars>>

NextPush ==
    \/ StartRun
    \/ BeginFile
    \/ PtsPushIdentity
    \/ PartsPushIdentity
    \/ SyncSuppliers
    \/ PushBom
    \/ FinishRun
    \/ Rerun

SpecPush == InitPush /\ [][NextPush]_vars

\* ---- properties of a push run ----

\* C4: a file is attempted only after every file of the corpus at a lower
\* level has been pushed or has failed (ascending level order with a barrier
\* between the levels).
LevelBarrier ==
    cur # <<>> => \A g \in corpus : g.level < cur[1].level => g \in attempted

\* the kinds of rows whose creation the second run must not request
CreateKinds == {"part", "mp", "sp", "pb", "bom"}

\* C5: the second of two runs over the same corpus, when the first run
\* pushed every file and no force flag is set, requests no creation of a
\* part, manufacturer part, supplier part, price break or BOM line and
\* leaves the remote as the first run left it.
IdempotentRerun ==
    (run = 2 /\ run1_ok /\ ~force /\ ~clean /\ ~force_price)
        => (posts \cap CreateKinds = {} /\ snapshot = <<Remote>>)

\* C6: the records the existence check of a push returns for the file being
\* pushed all have the revision of the file; for a file without revision,
\* the empty revision.
ResolutionExact ==
    cur # <<>> => \A i \in 1..Len(existing) : existing[i].revision = cur[1].rev

\* the files that share their level, folder and base name with another file
\* of the corpus: one without revision, the other with a revision
ConflictFiles ==
    {f \in corpus : \E g \in corpus : g # f /\ g.level = f.level /\ g.name = f.name}

PriceBreakUnique ==
    \A r1, r2 \in r_pbs : (r1.part = r2.part /\ r1.quantity = r2.quantity) => r1 = r2

\* a line of the .bom.json of file f has a BOM row under part pk whose
\* sub-part is a remote part of the name of the line
LineResolved(line, pk, boms) ==
    \E b \in boms, p \in r_parts :
        b.part = pk /\ b.sub_part = p.pk /\ p.name = line.sub_name

\* C10: a step that writes validated_bom = true for a part is the BOM push
\* of a file with a BOM in which every line is resolved to a sub-part and
\* every line is validated.
BomValidationGate ==
    [][(vb_writes' \ vb_writes # {}) =>
          /\ cur # <<>>
          /\ cur[1].has_bom
          /\ cur[1].bom # <<>>
          /\ vb_writes' \ vb_writes = {part_pk}
          /\ \A i \in 1..Len(cur[1].bom) :
                /\ cur[1].bom[i].validated
                /\ LineResolved(cur[1].bom[i], part_pk, r_boms')]_vars

BomValidationGateWitness ==
    /\ vb_writes # {}
    /\ \E f \in attempted :
          /\ f.has_bom
          /\ Len(f.bom) >= 1
          /\ \A i \in 1..Len(f.bom) : f.bom[i].validated
    /\ \E p \in r_parts : p.pk \in vb_writes /\ p.validated_bom

\* ---- failures during a push run ----

\* file f has a BOM line that names file g of the corpus
DependsOn(f, g) ==
    /\ f.has_bom
    /\ \E i \in 1..Len(f.bom) : /\ f.bom[i].sub_name = g.name
                                /\ f.bom[i].sub_revision = g.rev

\* C11: a file whose BOM names a file that failed earlier in the run is
\* skipped: its push never gets as far as a part on the remote and the push
\* of its BOM.
DependentSkipped ==
    (cur # <<>> /\ ppc = "bom") => \A g \in failed : ~DependsOn(cur[1], g)

\* a line of a .bom.json whose sub-part is neither in the cache nor on the
\* remote
Unresolvable(line) ==
    /\ CacheGet(cache, line.sub_name) = <<>>
    /\ \A p \in r_parts : p.name # line.sub_name

\* C12: a file pushed with a BOM line whose sub-part exists neither in the
\* cache nor on the remote ends as failed.
UnresolvedReferenceFails ==
    \A f \in attempted :
        (f.has_bom /\ \E i \in 1..Len(f.bom) : Unresolvable(f.bom[i])) => f \in failed

\* C13: a run ends only after every file that does not depend on a failed
\* file has been pushed.
FailureIsolated ==
    ppc \in {"done", "exit"} =>
        \A f \in corpus \ attempted : \E g \in failed : DependsOn(f, g)

\* the remote parts created during the current run
CreatedInRun ==
    {p \in r_parts : /\ p.pk >= FirstNewPk
                     /\ snapshot # <<>> => p.pk \notin {q.pk : q \in snapshot[1].parts}}

\* the cache holds a record of the pk of part p under the name of p
InCache(c, p) ==
    \E i \in 1..Len(CacheGet(c, p.name)) : CacheGet(c, p.name)[i].pk = p.pk

\* every BOM line of a file pushed so far that names a part created during
\* the run (and no other remote part) has a BOM row under the part of the
\* file whose sub-part is the pk the remote gave to the created part
BomRowsUseCreatedPk ==
    \A f \in attempted \ failed :
       f.has_bom =>
         \A i \in 1..Len(f.bom) : \A p \in CreatedInRun :
            (/\ p.name = f.bom[i].sub_name
             /\ Cardinality({q \in r_parts : q.name = p.name}) = 1)
            => \E b \in r_boms, t \in r_parts :
                  /\ t.name = f.name /\ t.revision = f.rev
                  /\ b.part = t.pk /\ b.sub_part = p.pk

SameIdentity(parts, f) ==
    {p \in parts : p.name = f.name /\ p.revision = f.rev /\ p.IPN = f.IPN}

\* C15: with --force, the identity step of a file that has a matching remote
\* part, unless it ends the run, leaves exactly one remote part of the
\* identity of the file, a newly created one, and goes on to push the
\* suppliers and the BOM against it.
ForceRecreates ==
    [][(force /\ ppc = "identity" /\ existing' # <<>> /\ ppc' # "exit") =>
          /\ ppc' = "suppliers"
          /\ \E p \in r_parts' :
                /\ SameIdentity(r_parts', cur[1]) = {p}
                /\ p.pk \notin {q.pk : q \in r_parts}
                /\ part_pk' = p.pk]_vars

(***************************************************************************)
(* json2inv-template.py: the import of the template files.  It keeps no    *)
(* cache: every lookup is a query of the remote.                           *)
(***************************************************************************)

\* part_exists(name, revision, ipn): revision and IPN are part of the query
\* only when they are not empty
PartExists(parts, name, revision, ipn) ==
    ByPk({p \in parts : /\ p.name = name
                        /\ (revision = "" \/ p.revision = revision)
                        /\ (ipn = "" \/ p.IPN = ipn)})

\* delete_part for every record of 'existing'; the first failure raises
RECURSIVE TemplateDeleteLoop(_, _, _, _, _)
TemplateDeleteLoop(ex, i, oks, confirms, st) ==
    IF i > Len(ex) \/ st.raised THEN st
    ELSE LET p == ex[i]
             depRows == {b \in st.boms : b.part = p.pk}
         IN IF ~clean \/ (depRows # {} /\ ~confirms[i]) \/ ~oks[i]
            THEN [st EXCEPT !.raised = TRUE,
                            !.boms = IF clean /\ (depRows = {} \/ confirms[i])
                                     THEN st.boms \ depRows ELSE st.boms]
            ELSE TemplateDeleteLoop(ex, i + 1, oks, confirms,
                    [RemoteWithout({p.pk}, [st EXCEPT !.boms = st.boms \ depRows])
                        EXCEPT !.raised = FALSE])

\* import_template_part: the price breaks of one supplier part; a rejected
\* POST is printed and the loop goes on
RECURSIVE TemplatePriceBreakLoop(_, _, _, _)
TemplatePriceBreakLoop(pbs, i, sp_pk, st) ==
    IF i > Len(pbs) THEN st
    ELSE TemplatePriceBreakLoop(pbs, i + 1, sp_pk,
            [PostPriceBreak(st, sp_pk, pbs[i]) EXCEPT !.exit = FALSE])

\* import_template_part: one supplier; every error is printed and the loop
\* goes on with the next supplier
TemplateSupplier(supplier, ppk, st) ==
    LET sup_results == ByPk({c \in st.companies : c.name = supplier.supplier_name})
    IN IF sup_results = <<>> THEN st
       ELSE LET st1 == PostSupplierPart(st, ppk, sup_results[1].pk, supplier.SKU)
            IN IF st1.exit THEN [st1 EXCEPT !.exit = FALSE]
               ELSE TemplatePriceBreakLoop(supplier.price_breaks, 1, st.next, st1)

RECURSIVE TemplateSupplierLoop(_, _, _, _)
TemplateSupplierLoop(suppliers, i, ppk, st) ==
    IF i > Len(suppliers) THEN st
    ELSE TemplateSupplierLoop(suppliers, i + 1, ppk, TemplateSupplier(suppliers[i], ppk, st))

\* import_bom: every line queries the remote for its sub-part and for an
\* existing row of the parent and the sub-part
RECURSIVE ImportBom(_, _, _, _)
ImportBom(tree, i, parent_pk, st) ==
    IF i > Len(tree) THEN st
    ELSE LET node == tree[i]
             sub_parts == PartExists(st.parts, node.sub_name, "", node.sub_IPN)
         IN IF sub_parts = <<>> THEN ImportBom(tree, i + 1, parent_pk, st)
            ELSE LET sub_pk == sub_parts[1].pk
                     found == ByPk({b \in st.boms : b.part = parent_pk /\ b.sub_part = sub_pk})
                     row == [pk |-> st.next, part |-> parent_pk, sub_part |-> sub_pk,
                             quantity |-> node.quantity, validated |-> FALSE]
                 IN IF found # <<>>
                    THEN ImportBom(tree, i + 1, parent_pk,
                            [st EXCEPT !.boms = {IF b.pk = found[1].pk
                                                 THEN [b EXCEPT !.quantity = node.quantity]
                                                 ELSE b : b \in st.boms}])
                    ELSE ImportBom(tree, i + 1, parent_pk,
                            [st EXCEPT !.boms = @ \cup {row},
                                       !.next = @ + 1,
                                       !.posts = @ \cup {"bom"}])

\* One template file without suppliers and BOM, a remote that may hold a
\* part of its name, and the flags --force and --clean-dependencies.
InitTemplateForce ==
    /\ \E rev \in Revs : corpus = {File(1, "Leg", rev, <<>>, FALSE, <<>>)}
    /\ r_parts \in {{}, {RemotePart(2, "Leg", "", FALSE)}, {RemotePart(3, "Leg", "A", FALSE)},
                    {RemotePart(2, "Leg", "", FALSE), RemotePart(3, "Leg", "A", FALSE)}}
    /\ r_categories = {CatFurniture}
    /\ r_companies = {} /\ r_sps = {} /\ r_pbs = {}
    /\ r_boms \in {{}, {[pk |-> 8, part |-> 2, sub_part |-> 3, quantity |-> 2, validated |-> FALSE]}}
    /\ r_boms # {} => Cardinality(r_parts) = 2
    /\ force \in BOOLEAN /\ clean \in BOOLEAN
    /\ force_price = FALSE /\ r_strict = FALSE

InitTemplate ==
    /\ script = "template"
    /\ InitSuppliers \/ InitBom \/ InitTemplateForce
    /\ force_price = FALSE
    /\ next_pk = FirstNewPk
    /\ cache = <<>> /\ queue = <<>> /\ cur = <<>>
    /\ part_pk = NoPk /\ cat_pk = NoPk /\ existing = <<>>
    /\ ppc = "start" /\ run = 1
    /\ attempted = {} /\ failed = {} /\ warned = {} /\ posts = {}
    /\ vb_writes = {} /\ snapshot = <<>> /\ run1_ok = FALSE
    /\ IdleLevel /\ IdleAgg /\ IdleNet

\* main: the files are collected and sorted
TemplateStart ==
    /\ script = "template"
    /\ ppc = "start"
    /\ queue' = SortedFiles(corpus)
    /\ ppc' = "main"
    /\ UNCHANGED <<cache, cur, part_pk, cat_pk, existing, run>>
    /\ UNCHANGED <<flagVars, remoteVars, histVars, levelVars, aggVars, netVars>>

\* import_template_part for the next file, with main's 'except Exception'
TemplateImport ==
    /\ script = "template"
    /\ ppc = "main"
    /\ queue # <<>>
    /\ LET f == Head(queue)
           w == CategoryWalk(FolderPath, r_categories, NoPk, next_pk)
           ex == PartExists(r_parts, f.name, f.rev, f.IPN)
       IN \E oks \in [1..Len(ex) -> BOOLEAN], confirms \in [1..Len(ex) -> BOOLEAN],
             ok \in BOOLEAN :
            LET st0 == [parts |-> r_parts, sps |-> r_sps, pbs |-> r_pbs, boms |-> r_boms,
                        companies |-> r_companies, next |-> w.next,
                        posts |-> IF w.next # next_pk THEN posts \cup {"category"} ELSE posts,
                        exit |-> FALSE, raised |-> FALSE]
                skip == ex # <<>> /\ ~force
                st1 == IF ex # <<>> /\ force
                       THEN TemplateDeleteLoop(ex, 1, oks, confirms, st0)
                       ELSE st0
                created == ~skip /\ ~st1.raised /\ ok
                new_pk == st1.next
                st2 == IF skip \/ st1.raised THEN st1
                       ELSE IF ok
                            THEN [st1 EXCEPT !.parts = @ \cup {NewPart(f, new_pk, w.pk)},
                                             !.next = @ + 1,
                                             !.posts = @ \cup {"part"}]
                            ELSE [st1 EXCEPT !.raised = TRUE, !.posts = @ \cup {"part"}]
                st3 == IF created THEN TemplateSupplierLoop(f.suppliers, 1, new_pk, st2) ELSE st2
                st4 == IF created /\ f.has_bom THEN ImportBom(f.bom, 1, new_pk, st3) ELSE st3
            IN /\ r_categories' = w.cats
               /\ r_parts' = st4.parts /\ r_sps' = st4.sps /\ r_pbs' = st4.pbs
               /\ r_boms' = st4.boms /\ r_companies' = st4.companies
               /\ next_pk' = st4.next
               /\ posts' = st4.posts
               /\ existing' = ex
               /\ part_pk' = IF created THEN new_pk ELSE NoPk
               /\ cat_pk' = w.pk
               /\ attempted' = attempted \cup {f}
               /\ failed' = IF st4.raised THEN failed \cup {f} ELSE failed
    /\ queue' = Tail(queue)
    /\ UNCHANGED <<cache, cur, ppc, run, warned, vb_writes, snapshot, run1_ok>>
    /\ UNCHANGED <<flagVars, levelVars, aggVars, netVars>>

\* main has imported every file
TemplateFinish ==
    /\ script = "template"
    /\ ppc = "main"
    /\ queue = <<>>
    /\ ppc' = "done"
    /\ UNCHANGED <<cache, queue, cur, part_pk, cat_pk, existing, run>>
    /\ UNCHANGED <<flagVars, remoteVars, histVars, levelVars, aggVars, netVars>>

NextTemplate ==
    \/ TemplateStart
    \/ TemplateImport
    \/ TemplateFinish

SpecTemplate == InitTemplate /\ [][NextTemplate]_vars

\* C16: a file pushed without --force whose part already existed on the
\* remote gets no second part, and each of its suppliers that the remote
\* knows has a supplier part under the existing part.
ReuseStillSyncs ==
    \A f \in attempted \ failed :
       ~force =>
         /\ Cardinality({p \in r_parts : p.name = f.name /\ p.revision = f.rev}) <= 1
         /\ \A i \in 1..Len(f.suppliers) :
               (\E c \in r_companies : c.name = f.suppliers[i].supplier_name)
               => \E p \in r_parts, sp \in r_sps :
                     /\ p.name = f.name
                     /\ sp.part = p.pk
                     /\ sp.SKU = f.suppliers[i].SKU

(***************************************************************************)
(* fetch_all (json_to_inv-parts.py) and fetch_data (json_to_inv-pts.py):   *)
(* a listing follows the 'next' URL of every page until a page has none.   *)
(* What the server answers is not in the hands of the script: every        *)
(* assignment of a 'next' to the pages is a server the script may meet.    *)
(***************************************************************************)

\* Largest number of requests of one listing that is followed.
MaxRequests == 5

Urls == {"u1", "u2", "u3"}

\* the records of the answer at a URL: an object is one record
Records(u) ==
    IF page_kind[u] = "object" THEN <<<<u, 0>>>>
    ELSE [i \in 1..page_len[u] |-> <<u, i>>]

\* a plausible slip: the 'next' of a page is not followed
NextUrlNone(u) == None

\* url = data.get("next") for a dict with "results", None for any other
NextUrl(u) == IF page_kind[u] = "paged" THEN page_next[u] ELSE None

InitFetch ==
    /\ page_next \in [Urls -> Urls \cup {None}]
    /\ page_kind \in [Urls -> {"paged", "array", "object"}]
    /\ page_len \in [Urls -> {0, 2}]
    /\ url = "u1"
    /\ requested = <<>>
    /\ items = <<>>
    /\ fpc = "run"
    /\ IdleRetry
    /\ IdleAux
    /\ IdleLevel /\ IdleAgg /\ IdlePush

\* one turn of 'while url': the page is requested, its results are taken
\* and url becomes data.get("next")
FetchPage ==
    /\ fpc = "run"
    /\ url # None
    /\ Len(requested) < MaxRequests
    /\ requested' = Append(requested, url)
    /\ items' = items \o Records(url)
    /\ url' = NextUrl(url)
    /\ UNCHANGED <<page_next, page_kind, page_len, fpc>>
    /\ UNCHANGED <<retryVars, auxVars, levelVars, aggVars, pushVars>>

\* 'while url' ends: return items
FetchReturn ==
    /\ fpc = "run"
    /\ url = None
    /\ fpc' = "done"
    /\ UNCHANGED <<page_next, page_kind, page_len, url, requested, items>>
    /\ UNCHANGED <<retryVars, auxVars, levelVars, aggVars, pushVars>>

NextFetch ==
    \/ FetchPage
    \/ FetchReturn

SpecFetch == InitFetch /\ [][NextFetch]_vars

\* C17: a listing requests no URL twice.
NoRepeatedRequest ==
    \A i, j \in 1..Len(requested) : requested[i] = requested[j] => i = j

(***************************************************************************)
(* robust_request (json_to_inv-parts.py): one call, attempted up to        *)
(* max_retries times.  The outcome of an attempt is a response with a      *)
(* status code or an exception raised by requests.                         *)
(***************************************************************************)

max_retries == 5
base_delay == 1

NoStatus == 0

\* the status codes and exceptions an attempt may end with
Statuses == {200, 201, 204, 400, 404, 429, 500, 503}
Exceptions == {"ConnectionError", "Timeout"}
Outcomes == [exc : {""}, status : Statuses] \cup [exc : Exceptions, status : {NoStatus}]

\* 'if r.status_code in (200, 201, 204): return r'
IsSuccess(o) == o.exc = "" /\ o.status \in {200, 201, 204}

\* a plausible slip: every error status is taken for a transient one
IsTransientStatusAnyError(status) == status >= 400

\* 'if r.status_code in (502, 503, 504, 429) or r.status_code >= 500'
IsTransientStatus(status) == status \in {502, 503, 504, 429} \/ status >= 500

RECURSIVE Pow2(_)
Pow2(n) == IF n = 0 THEN 1 ELSE 2 * Pow2(n - 1)

\* a plausible slip: the delay grows by base_delay per attempt
RetryDelayLinear(attempt) == base_delay * (attempt + 1)

\* 'delay = base_delay * (2 ** attempt)'
RetryDelay(attempt) == base_delay * Pow2(attempt)

InitRetry ==
    /\ responses = <<>>
    /\ delays = <<>>
    /\ rpc = "run"
    /\ IdleFetch
    /\ IdleAux
    /\ IdleLevel /\ IdleAgg /\ IdlePush

\* one turn of 'for attempt in range(max_retries)', and the sys.exit(1)
\* after the loop when it was the last turn
RobustAttempt ==
    /\ rpc = "run"
    /\ Len(responses) < max_retries
    /\ \E o \in Outcomes :
         LET attempt == Len(responses)
             last == attempt = max_retries - 1
         IN /\ responses' = Append(responses, o)
            /\ IF o.exc # ""
               THEN IF last
                    THEN rpc' = "exit" /\ delays' = delays
                    ELSE rpc' = "run" /\ delays' = Append(delays, RetryDelay(attempt))
               ELSE IF IsSuccess(o)
                    THEN rpc' = "returned" /\ delays' = delays
                    ELSE IF IsTransientStatus(o.status)
                         THEN /\ delays' = Append(delays, RetryDelay(attempt))
                              /\ rpc' = IF last THEN "exit" ELSE "run"
                         ELSE rpc' = "exit" /\ delays' = delays
    /\ UNCHANGED <<fetchVars, auxVars, levelVars, aggVars, pushVars>>

NextRetry == RobustAttempt

SpecRetry == InitRetry /\ [][NextRetry]_vars

\* the outcomes after which robust_request tries again
Retried(o) == o.exc # "" \/ o.status = 429 \/ o.status >= 500

\* C18: robust_request makes at most max_retries attempts; an attempt is
\* followed by another only after a connection error, a timeout, a 5xx or a
\* 429, and after a delay of 1, 2, 4, 8, ... seconds; the call is a success
\* only when its last attempt got a 2xx, and it has ended as a fatal error
\* once max_retries attempts have failed.
BoundedRetry ==
    /\ Len(responses) <= max_retries
    /\ \A i \in 1..Len(responses) - 1 : Retried(responses[i])
    /\ \A i \in 1..Len(delays) : delays[i] = Pow2(i - 1)
    /\ Len(responses) - 1 <= Len(delays)
    /\ rpc = "run" => (Len(responses) < max_retries /\ Len(delays) = Len(responses))
    /\ rpc = "returned" => IsSuccess(responses[Len(responses)])
    /\ (Len(responses) = max_retries /\ ~IsSuccess(responses[max_retries])) => rpc = "exit"

BoundedRetryWitness ==
    /\ rpc = "exit"
    /\ Len(responses) = max_retries
    /\ \A i \in 1..max_retries : Retried(responses[i])
    /\ \E i \in 1..max_retries : responses[i].exc = "Timeout"
    /\ \E i \in 1..max_retries : responses[i].status = 503
    /\ Len(delays) >= 4

\* a 4xx response other than 429
ClientError(o) == o.exc = "" /\ o.status >= 400 /\ o.status < 500 /\ o.status # 429

\* C19: a 4xx response other than 429 is the last attempt of the call, and
\* the call has ended as a fatal error.
NoRetryOnClientError ==
    \A i \in 1..Len(responses) :
        ClientError(responses[i]) => (i = Len(responses) /\ rpc = "exit")

NoRetryOnClientErrorWitness ==
    /\ Len(responses) >= 2
    /\ ClientError(responses[Len(responses)])
    /\ rpc = "exit"

(***************************************************************************)
(* The memo table of get_level over a graph with a cycle                   *)
(***************************************************************************)

\* pk neither lies on a cycle nor reaches one
Unrelated(pk) ==
    /\ ~OnCycle(pk)
    /\ \A c \in all_parts : OnCycle(c) => ~Reaches(pk, c)

\* the level of a part that reaches no cycle, by the formula of get_level
\* (the graph without the members of the cycle gives it the same value)
RECURSIVE LevelWithoutCycle(_)
LevelWithoutCycle(pk) ==
    IF DepsGet(pk) = {} THEN 1
    ELSE 1 + SetMax({LevelWithoutCycle(d) : d \in DepsGet(pk)})

\* C20: over a graph with a cycle, when the level assignment has ended,
\* every part that neither lies on the cycle nor reaches it has in the memo
\* table the value it has in the graph without the members of the cycle.
MemoUncorrupted ==
    (~Acyclic /\ lpc \in {"done", "crashed"}) =>
        \A pk \in all_parts :
            Unrelated(pk) => /\ pk \in DOMAIN level_memo
                             /\ level_memo[pk] = LevelWithoutCycle(pk)

\* the entries the memo table does hold for such parts are the right ones
MemoEntriesRight ==
    \A pk \in DOMAIN level_memo \cap all_parts :
        Unrelated(pk) => level_memo[pk] = LevelWithoutCycle(pk)

(***************************************************************************)
(* Level assignment: order of the calls, edges to parts that were not      *)
(* fetched                                                                 *)
(***************************************************************************)

\* every pk get_level is called with: the fetched parts and the targets of
\* their edges
Touched == all_parts \cup UNION {deps[pk] : pk \in all_parts}

\* C21: order independence.  For an acyclic graph the memo table that the
\* loop of main ends with is a function of the graph alone: the same table,
\* with the same keys, whatever order the parts were passed to get_level in
\* and whatever order the dependencies of a part were visited in.
OrderIndependent ==
    (Acyclic /\ lpc = "done") =>
        level_memo = [pk \in Touched |-> LevelWithoutCycle(pk)]

\* C21 witness: a finished run over a graph where the order could matter: a
\* part with two dependencies of different levels, one of which is also the
\* dependency of the other.
OrderIndependentWitness ==
    /\ lpc = "done"
    /\ \E x, d, e \in all_parts :
          /\ deps[x] = {d, e} /\ d \in deps[e]
          /\ level_memo[x] = 3

\* the edges of pk whose target is among the fetched parts
Resolvable(pk) == DepsGet(pk) \cap all_parts

\* the level of pk computed from its resolvable edges alone
RECURSIVE LevelOmitDangling(_)
LevelOmitDangling(pk) ==
    IF Resolvable(pk) = {} THEN 1
    ELSE 1 + SetMax({LevelOmitDangling(d) : d \in Resolvable(pk)})

\* C22: dangling edges.  When the level assignment over an acyclic graph has
\* ended, every fetched part has the level computed from its edges to fetched
\* parts alone; a part whose only dependency is absent from the fetched parts
\* has level 1.
DanglingOmitted ==
    (Acyclic /\ lpc = "done") =>
        \A pk \in all_parts : level_memo[pk] = LevelOmitDangling(pk)

(***************************************************************************)
(* The dependency graph of the pull scripts: the loop of main over         *)
(* all_parts.items() that fills deps, and fetch_bom                        *)
(***************************************************************************)

\* Largest number of BOM items the remote lists for one part.
MaxBomItems == 2

\* the pks of the fetched parts of a pull run, and the pks a part refers to
g_pks == {"A", "B"}
g_targets == {"B", "C"}

\* the records the remote lists for a part: variant_of (None: no base
\* part), the flags assembly and is_template, and the BOM items of the part,
\* each with its sub_part pk (None: an item without sub_part)
PartRecords ==
    [variant_of : {None, "C"}, assembly : BOOLEAN, is_template : BOOLEAN,
     bom : UNION {[1..n -> g_targets \cup {None}] : n \in 0..MaxBomItems}]

\* sub_pks of fetch_bom: the sub_part of every item that has one, in order
RECURSIVE SubPks(_)
SubPks(bom_items) ==
    IF bom_items = <<>> THEN <<>>
    ELSE IF Head(bom_items) = None
         THEN SubPks(Tail(bom_items))
         ELSE <<Head(bom_items)>> \o SubPks(Tail(bom_items))

\* deps[pk] after 'if part.get("variant_of"): deps[pk].append(...)'
WithVariantOf(part) ==
    IF part.variant_of # None THEN <<part.variant_of>> ELSE <<>>

\* the elements of a list
Elems(list) == {list[i] : i \in DOMAIN list}

InitGraph ==
    /\ g_script \in {"parts", "pts"}
    /\ g_parts \in [g_pks -> PartRecords]
    /\ \A pk \in g_pks : pk \notin Elems(g_parts[pk].bom)
    /\ g_deps = <<>>
    /\ g_pending = g_pks
    /\ gpc = "build"
    /\ IdleCat /\ IdleMore
    /\ IdleFetch /\ IdleRetry
    /\ IdleLevel /\ IdleAgg /\ IdlePush

\* One turn of 'for pk, part in all_parts.items()'.  inv-parts_to_json.py
\* extends deps[pk] by the sub_pks fetch_bom returned; inv-pts_to_json.py
\* reads item["sub_part"]["pk"] of every node of the tree, and the sub_part
\* of a node holds the keys name, IPN and description only: KeyError.
BuildDeps ==
    /\ gpc = "build"
    /\ \E pk \in g_pending :
         LET part == g_parts[pk]
             first == WithVariantOf(part)
             sub_pks == SubPks(part.bom)
         IN IF part.assembly \/ part.is_template
            THEN IF g_script = "pts" /\ sub_pks # <<>>
                 THEN /\ gpc' = "crashed"
                      /\ g_deps' = IF first = <<>> THEN g_deps
                                   ELSE g_deps @@ (pk :> first)
                      /\ UNCHANGED g_pending
                 ELSE /\ g_deps' = g_deps @@ (pk :> first \o sub_pks)
                      /\ g_pending' = g_pending \ {pk}
                      /\ UNCHANGED gpc
            ELSE /\ g_deps' = IF first = <<>> THEN g_deps
                              ELSE g_deps @@ (pk :> first)
                 /\ g_pending' = g_pending \ {pk}
                 /\ UNCHANGED gpc
    /\ UNCHANGED <<g_script, g_parts>>
    /\ UNCHANGED <<catVars, moreVars, fetchVars, retryVars, levelVars, aggVars, pushVars>>

\* the loop has passed every part: level_memo = {} comes next
GraphDone ==
    /\ gpc = "build"
    /\ g_pending = {}
    /\ gpc' = "done"
    /\ UNCHANGED <<g_script, g_parts, g_deps, g_pending>>
    /\ UNCHANGED <<catVars, moreVars, fetchVars, retryVars, levelVars, aggVars, pushVars>>

NextGraph ==
    \/ BuildDeps
    \/ GraphDone

SpecGraph == InitGraph /\ [][NextGraph]_vars

\* deps.get(pk) or []
GDepsGet(pk) == IF pk \in DOMAIN g_deps THEN g_deps[pk] ELSE <<>>

\* the list of pk holds the variant_of target and the sub-part of every BOM
\* line of an assembly or template
EdgesComplete(pk) ==
    LET part == g_parts[pk]
    IN /\ part.variant_of # None => part.variant_of \in Elems(GDepsGet(pk))
       /\ (part.assembly \/ part.is_template) =>
              \A i \in DOMAIN part.bom :
                  part.bom[i] # None => part.bom[i] \in Elems(GDepsGet(pk))

\* C23: dependency graph construction.  Building the graph never ends in an
\* error, and once it is built the dependency list of every part holds its
\* variant_of target and, for an assembly or a template, the sub-part of
\* every BOM line.
GraphComplete ==
    /\ gpc # "crashed"
    /\ gpc = "done" => \A pk \in g_pks : EdgesComplete(pk)

\* the same for inv-parts_to_json.py alone
GraphCompleteParts ==
    g_script = "parts" => GraphComplete

(***************************************************************************)
(* Properties of the BOM push: the validated_bom flag of the parent        *)
(***************************************************************************)

\* the remote parts a line of the BOM file of json_to_inv-parts.py is bound to
BoundSubParts(parts, node) ==
    IF BomSubParts(node) = <<>> THEN {}
    ELSE {p \in parts : p.pk = BomSubParts(node)[1].pk}

\* C24: transitive validation gate.  A BOM push sends validated_bom = True
\* for the parent only if every sub-part the lines of the BOM file are bound
\* to carries validated_bom = true itself.
TransitiveGate ==
    [][\A pk \in vb_writes' \ vb_writes :
           \A i \in DOMAIN cur[1].bom :
               \A p \in BoundSubParts(r_parts', cur[1].bom[i]) : p.validated_bom]_vars

\* the gate of the BOM file fails: a line is unresolved or not validated
GateFails(bom) ==
    \E i \in DOMAIN bom : BomSubParts(bom[i]) = <<>> \/ ~bom[i].validated

\* C25: validation is cleared when the gate fails.  When json_to_inv-parts.py
\* has pushed the BOM of a part and a line of it is unresolved or has
\* validated = false, the remote part has validated_bom = false, whatever the
\* flag was before the push.
ValidationCleared ==
    [][(script = "parts" /\ ppc = "bom" /\ ppc' # "bom"
            /\ cur[1].has_bom /\ GateFails(cur[1].bom)) =>
           \A p \in r_parts' : p.pk = part_pk => ~p.validated_bom]_vars

(***************************************************************************)
(* Properties of the supplier sync                                         *)
(***************************************************************************)

\* the supplier parts of a part, supplier company name and SKU
SupplierPartsOf(sps, companies, ppk, supplier) ==
    {sp \in sps : /\ sp.part = ppk
                  /\ sp.SKU = supplier.SKU
                  /\ \E c \in companies : c.pk = sp.supplier /\ c.name = supplier.supplier_name}

\* the supplier part a sync step has used for a supplier of the file: the
\* one it created, or else the one the remote held
UsedSupplierParts(supplier) ==
    LET after == SupplierPartsOf(r_sps', r_companies', part_pk, supplier)
        created == {sp \in after : sp \notin r_sps}
    IN IF created # {} THEN created ELSE after

\* the price breaks of the file name every quantity once
DistinctQuantities(pbs) ==
    \A i, j \in DOMAIN pbs : pbs[i].quantity = pbs[j].quantity => i = j

\* the rows of a supplier part for a quantity
RowsFor(pbs, sp_pk, q) == {r \in pbs : r.part = sp_pk /\ r.quantity = q}

\* what the sync of one local price break has to leave for its quantity
SyncedQuantity(old, new, pb) ==
    IF old = {}
    THEN /\ Cardinality(new) = 1
         /\ \A r \in new : r.price = pb.price /\ r.price_currency = pb.price_currency
    ELSE IF \E r \in old : r.price = pb.price /\ r.price_currency = pb.price_currency
         THEN new = old
         ELSE new = {[r EXCEPT !.price = pb.price,
                               !.price_currency = pb.price_currency] : r \in old}

\* one sync step of the suppliers of a file, without --force-price: for
\* every local price break of a supplier (the file naming each quantity
\* once) the supplier part used has a new row when it had none for that
\* quantity, the same row with the local price and currency when they
\* differed, and the unchanged row when they were equal
PerQuantityStep ==
    (ppc = "suppliers" /\ ppc' = "bom" /\ ~force_price /\ cur[1].purchaseable) =>
        \A i \in DOMAIN cur[1].suppliers :
            LET supplier == cur[1].suppliers[i]
            IN DistinctQuantities(supplier.price_breaks) =>
                   \A sp \in UsedSupplierParts(supplier) :
                       \A k \in DOMAIN supplier.price_breaks :
                           LET pb == supplier.price_breaks[k]
                           IN SyncedQuantity(RowsFor(r_pbs, sp.pk, pb.quantity),
                                             RowsFor(r_pbs', sp.pk, pb.quantity), pb)

\* C26: price-break sync per quantity.  Every sync of the suppliers of a
\* file creates the rows of the missing quantities, updates in place the
\* rows whose price or currency differs, and leaves the equal rows alone.
PerQuantitySync == [][PerQuantityStep]_vars

\* the same for json_to_inv-pts.py alone
PerQuantitySyncPts == [][script = "pts" => PerQuantityStep]_vars

(***************************************************************************)
(* Order of the aggregated price breaks                                    *)
(***************************************************************************)

\* C27: the aggregated price breaks are emitted in strictly ascending order
\* of quantity, whatever the order of the raw rows of the remote.
AscendingQuantity ==
    apc = "done" =>
        \A i, j \in 1..Len(sp_price_breaks) :
            i < j => sp_price_breaks[i].quantity < sp_price_breaks[j].quantity

\* C27 witness: the remote lists a row of the larger quantity before a row
\* of the smaller one, and both quantities are emitted.
AscendingQuantityWitness ==
    /\ apc = "done"
    /\ Len(price_breaks) >= 2
    /\ price_breaks[1].quantity > price_breaks[2].quantity
    /\ Len(sp_price_breaks) = 2

(***************************************************************************)
(* Properties of the BOM push: the binding of the lines                    *)
(***************************************************************************)

\* every line of the BOM file that names sub_name asks for a revision, and
\* the cache holds no part of that name with the revision a line asks for
OnlyOtherRevisions(bom, sub_name) ==
    /\ \E i \in DOMAIN bom : bom[i].sub_name = sub_name
    /\ \A i \in DOMAIN bom :
          bom[i].sub_name = sub_name =>
              /\ bom[i].sub_revision # ""
              /\ \A p \in Elems(CacheGet(cache, sub_name)) :
                     p.revision # bom[i].sub_revision

\* C28: BOM sub-part resolution is exact-match-only.  When the lines of a
\* BOM file name a sub-part only with revisions that no cached part of that
\* name has, the push of the BOM writes no line of the parent that is bound
\* to a part of that name: a line is never bound to another revision.
ExactBomBinding ==
    [][(ppc = "bom" /\ cur[1].has_bom) =>
           \A i \in DOMAIN cur[1].bom :
               OnlyOtherRevisions(cur[1].bom, cur[1].bom[i].sub_name) =>
                   \A b \in r_boms' \ r_boms :
                       b.part = part_pk =>
                           \A p \in r_parts :
                               p.pk = b.sub_part => p.name # cur[1].bom[i].sub_name]_vars

(***************************************************************************)
(* Properties of the supplier sync: the supplier-part rows                 *)
(***************************************************************************)

\* C29: supplier-part resolve-or-create.  Whatever pushes have run, the
\* remote holds at most one supplier part per (part, supplier, SKU): a sync
\* that finds such a row creates no second one.
SupplierPartUnique ==
    \A a, b \in r_sps :
        (a.part = b.part /\ a.supplier = b.supplier /\ a.SKU = b.SKU) => a.pk = b.pk

\* the same for json_to_inv-parts.py alone
SupplierPartUniqueParts ==
    script = "parts" => SupplierPartUnique

(***************************************************************************)
(* Properties of the BOM push: the rows of the parent                      *)
(***************************************************************************)

\* C30: BOM line create-or-update.  Whatever pushes have run, and also when
\* a BOM file lists one sub-part on two lines, the remote holds at most one
\* BOM line per (parent, sub-part).
BomLineUnique ==
    \A a, b \in r_boms :
        (a.part = b.part /\ a.sub_part = b.sub_part) => a.pk = b.pk

\* the same for json_to_inv-pts.py alone
BomLineUniquePts ==
    script = "pts" => BomLineUnique

(***************************************************************************)
(* Category resolution: check_category_exists and                          *)
(* create_category_hierarchy (the same in both push scripts)               *)
(***************************************************************************)

\* Largest number of calls of create_category_hierarchy in a run.
MaxResolutions == 2

\* the names of the folders, and the folder paths of the part files
CatNames == {"Furniture", "Legs"}
CatPaths == UNION {[1..n -> CatNames] : n \in 1..2}

\* the categories the remote may hold at the start: Legs with Furniture
\* below it, and Furniture with Legs below it
CatLegs == [pk |-> 1, name |-> "Legs", parent |-> NoPk]
CatLegsFurniture == [pk |-> 2, name |-> "Furniture", parent |-> 1]
CatRootFurniture == [pk |-> 3, name |-> "Furniture", parent |-> NoPk]
CatFurnitureLegs == [pk |-> 4, name |-> "Legs", parent |-> 3]

\* create_category_hierarchy from segment i on.  lookup_ok holds the
\* segments whose GET is answered 200; for the others check_category_exists
\* returns [].  st.cur is the pk of the category of the segments before i.
RECURSIVE CreateCategoryHierarchy(_, _, _, _)
CreateCategoryHierarchy(path, i, lookup_ok, st) ==
    IF i > Len(path) \/ st.crashed THEN st
    ELSE LET found == IF i \in lookup_ok
                      THEN CheckCategoryExists(st.rows, path[i], st.cur)
                      ELSE <<>>
             row == [pk |-> st.next, name |-> path[i], parent |-> st.cur]
             rejected == k_strict /\ \E c \in st.rows :
                                        c.name = row.name /\ c.parent = row.parent
         IN IF found # <<>>
            THEN CreateCategoryHierarchy(path, i + 1, lookup_ok,
                                         [st EXCEPT !.cur = found[1].pk])
            ELSE IF rejected
                 THEN [st EXCEPT !.crashed = TRUE]
                 ELSE CreateCategoryHierarchy(path, i + 1, lookup_ok,
                         [st EXCEPT !.rows = @ \cup {row},
                                    !.created = @ \cup {row},
                                    !.cur = row.pk,
                                    !.next = @ + 1])

InitCategory ==
    /\ k_rows \in {S \in SUBSET {CatLegs, CatLegsFurniture, CatRootFurniture, CatFurnitureLegs} :
                      /\ CatLegsFurniture \in S => CatLegs \in S
                      /\ CatFurnitureLegs \in S => CatRootFurniture \in S}
    /\ k_strict \in BOOLEAN
    /\ k_next = FirstNewPk
    /\ k_log = <<>>
    /\ kpc = "run"
    /\ IdleGraph /\ IdleMore
    /\ IdleFetch /\ IdleRetry
    /\ IdleLevel /\ IdleAgg /\ IdlePush

\* one call of create_category_hierarchy for the folder of a part file
ResolveCategory ==
    /\ kpc = "run"
    /\ Len(k_log) < MaxResolutions
    /\ \E path \in CatPaths, lookup_ok \in SUBSET (1..2) :
         LET st == CreateCategoryHierarchy(path, 1, lookup_ok,
                       [rows |-> k_rows, created |-> {}, cur |-> NoPk,
                        next |-> k_next, crashed |-> FALSE])
         IN /\ k_rows' = st.rows
            /\ k_next' = st.next
            /\ kpc' = IF st.crashed THEN "crashed" ELSE "run"
            /\ k_log' = Append(k_log, [path |-> path, before |-> k_rows,
                                       lookups_ok |-> (1..Len(path)) \subseteq lookup_ok,
                                       crashed |-> st.crashed,
                                       pk |-> st.cur, created |-> st.created])
    /\ UNCHANGED k_strict
    /\ UNCHANGED <<graphVars, moreVars, fetchVars, retryVars, levelVars, aggVars, pushVars>>

NextCategory == ResolveCategory

SpecCategory == InitCategory /\ [][NextCategory]_vars

\* the chain of names of category c from the root, in the rows
RECURSIVE ChainOf(_, _, _)
ChainOf(rows, c, fuel) ==
    IF c.parent = NoPk \/ fuel = 0 THEN <<c.name>>
    ELSE LET parents == {q \in rows : q.pk = c.parent}
         IN IF parents = {} THEN <<c.name>>
            ELSE Append(ChainOf(rows, CHOOSE q \in parents : TRUE, fuel - 1), c.name)

\* the categories whose full path is the given path
AtPath(rows, path) ==
    {c \in rows : ChainOf(rows, c, Cardinality(rows)) = path}

\* C31: category lookup-or-create is idempotent.  A call for a path whose
\* segments all exist on the remote creates nothing and returns the category
\* at that path, the same on every call; and the rows the calls of a run
\* have created hold at most one category per (name, parent).
CategoryIdempotent ==
    /\ \A i \in DOMAIN k_log :
          AtPath(k_log[i].before, k_log[i].path) # {} =>
              /\ ~k_log[i].crashed
              /\ k_log[i].created = {}
              /\ \A j \in DOMAIN k_log :
                     (k_log[j].path = k_log[i].path /\ ~k_log[j].crashed) =>
                         k_log[j].pk = k_log[i].pk
    /\ \A i, j \in DOMAIN k_log :
          \A a \in k_log[i].created : \A b \in k_log[j].created :
              (a.name = b.name /\ a.parent = b.parent) => a.pk = b.pk

\* C32: category identity is the full path.  The pk a call returns is the
\* pk of a category whose chain of names from the root is the path; the
\* first segment is never bound to a category that has a parent.
CategoryFullPath ==
    \A i \in DOMAIN k_log :
        ~k_log[i].crashed =>
            \E c \in AtPath(k_rows, k_log[i].path) : c.pk = k_log[i].pk

\* the same, for the calls all of whose lookups were answered
CategoryIdempotentAnswered ==
    (\A i \in DOMAIN k_log : k_log[i].lookups_ok) => CategoryIdempotent

(***************************************************************************)
(* Properties of a push run: the order of the steps of one item            *)
(***************************************************************************)

\* rows of the supplier step, and of the BOM step, written by a step
SupplierWrite ==
    \/ r_companies' \ r_companies # {}
    \/ r_sps' \ r_sps # {}
    \/ r_pbs' \ r_pbs # {}

BomWrite ==
    \/ r_boms' \ r_boms # {}
    \/ vb_writes' \ vb_writes # {}

\* the part of the item being pushed is on the remote under part_pk
ItemOnRemote == part_pk # NoPk /\ \E p \in r_parts : p.pk = part_pk

\* C33: per-item step order.  The push of an item resolves its category,
\* then its identity and creates, updates or reuses the part, then syncs the
\* suppliers, then the BOM; a category is created only at the start of an
\* item, a part row only in the identity step, and every supplier or BOM
\* write of an item comes after the identity step has put the part of the
\* item on the remote.
StepOrder ==
    [][/\ (ppc' = "identity" /\ ppc # "identity") => ppc = "main"
       /\ (ppc' = "suppliers" /\ ppc # "suppliers") => (ppc = "identity" /\ ItemOnRemote')
       /\ (ppc' = "bom" /\ ppc # "bom") => ppc = "suppliers"
       /\ r_categories' # r_categories => (ppc = "main" /\ ppc' = "identity")
       /\ {p.pk : p \in r_parts'} \ {p.pk : p \in r_parts} # {} => ppc = "identity"
       /\ SupplierWrite => (ppc = "suppliers" /\ ItemOnRemote)
       /\ BomWrite => (ppc = "bom" /\ ItemOnRemote)]_vars

\* C33 witness: an item whose part was created in the identity step and
\* whose supplier part and price break were created after it, the run having
\* gone on to the BOM step.
StepOrderWitness ==
    /\ ppc = "bom"
    /\ ItemOnRemote
    /\ part_pk >= FirstNewPk
    /\ \E sp \in r_sps : /\ sp.part = part_pk /\ sp.pk > part_pk
                         /\ \E pb \in r_pbs : pb.part = sp.pk /\ pb.pk > sp.pk

\* ---- the BOM lines of one file, json_to_inv-pts.py push_bom ----

MaxTreeLines == 2

\* push_bom is entered with the tree read and existing_boms fetched; a line
\* whose sub-part check_part_exists does not find has sub_pk NoPk
InitBomLines ==
    /\ b_tree \in UNION {[1..n -> [sub_pk : {NoPk, 10, 11}, quantity : {4}]] :
                              n \in 1..MaxTreeLines}
    /\ b_rows \in SUBSET {[pk |-> 1, part |-> 20, sub_part |-> 10, quantity |-> 2],
                          [pk |-> 2, part |-> 20, sub_part |-> 11, quantity |-> 2]}
    /\ b_existing = ByPk(b_rows)
    /\ b_i = 1
    /\ b_log = <<>>
    /\ bpc = "loop"
    /\ IdleLevel /\ IdleAgg /\ IdlePush /\ IdleFetch /\ IdleRetry
    /\ IdleGraph /\ IdleCat /\ IdleVariant /\ IdleRemove /\ IdleCompany

\* try_post_bom: the requests it issues for the answers the remote gives;
\* "no_part" is the answer 'object does not exist', retried twice
RECURSIVE TryPostBom(_, _, _, _)
TryPostBom(line, action, answers, attempt) ==
    LET req == [line |-> line, action |-> action, status |-> answers[attempt]]
    IN IF answers[attempt] = "ok"
       THEN <<[req EXCEPT !.status = "ok"] @@ [returned |-> "True"]>>
       ELSE IF answers[attempt] = "no_part" /\ attempt < 3
            THEN <<req @@ [returned |-> "retry"]>>
                 \o TryPostBom(line, action, answers, attempt + 1)
            ELSE <<req @@ [returned |-> "False"]>>

\* one pass of the loop 'for node in tree'
PushBomLine ==
    /\ bpc = "loop"
    /\ b_i <= Len(b_tree)
    /\ LET node == b_tree[b_i]
           Same(b) == b.sub_part = node.sub_pk
           found == SelectSeq(b_existing, Same)
           action == IF found # <<>> THEN "PATCH" ELSE "POST"
           row == [pk |-> 3 + Cardinality(b_rows), part |-> 20,
                   sub_part |-> node.sub_pk, quantity |-> node.quantity]
       IN IF node.sub_pk = NoPk
          THEN UNCHANGED <<b_rows, b_existing, b_log>>
          ELSE \E answers \in [1..3 -> {"ok", "no_part", "bad"}] :
                 LET reqs == TryPostBom(b_i, action, answers, 1)
                     ok == reqs[Len(reqs)].returned = "True"
                 IN /\ b_log' = b_log \o reqs
                    /\ b_rows' = IF ~ok THEN b_rows
                                 ELSE IF action = "POST" THEN b_rows \cup {row}
                                 ELSE {IF b.pk = found[1].pk
                                       THEN [b EXCEPT !.quantity = node.quantity]
                                       ELSE b : b \in b_rows}
                    /\ b_existing' = IF ok /\ action = "POST"
                                     THEN Append(b_existing, row)
                                     ELSE b_existing
    /\ b_i' = b_i + 1
    /\ UNCHANGED <<b_tree, bpc>>
    /\ UNCHANGED <<variantVars, removeVars, companyVars, graphVars, catVars, fetchVars, retryVars>>
    /\ UNCHANGED <<levelVars, aggVars, pushVars>>

\* the loop has passed every line: push_bom returns
BomLinesDone ==
    /\ bpc = "loop"
    /\ b_i > Len(b_tree)
    /\ bpc' = "done"
    /\ UNCHANGED <<b_tree, b_i, b_rows, b_existing, b_log>>
    /\ UNCHANGED <<variantVars, removeVars, companyVars, graphVars, catVars, fetchVars, retryVars>>
    /\ UNCHANGED <<levelVars, aggVars, pushVars>>

NextBomLines == PushBomLine \/ BomLinesDone

SpecBomLines == InitBomLines /\ [][NextBomLines]_vars

\* C34: FAILED is absorbing. Once a step of an item has failed, no further
\* remote write is issued for that item: a request of push_bom after which
\* try_post_bom returned False (the BOM line was rejected) is the last
\* request of the item.
FailedAbsorbing ==
    \A j \in 1..Len(b_log) : b_log[j].returned = "False" => j = Len(b_log)

\* ---- deletions of a push run ----

\* the pks of every resource of the remote
RemotePks ==
    [categories |-> {c.pk : c \in r_categories}, parts |-> {p.pk : p \in r_parts},
     companies |-> {c.pk : c \in r_companies}, sps |-> {sp.pk : sp \in r_sps},
     pbs |-> {pb.pk : pb \in r_pbs}, boms |-> {b.pk : b \in r_boms}]

\* C35: no deletion without an explicit flag. In a push run started without
\* --force and without --force-price no step removes a row of the remote,
\* of any resource: every pk the remote holds before the step it holds
\* after it.
NoDeleteWithoutFlag ==
    [][(~force /\ ~force_price) =>
          \A k \in DOMAIN RemotePks : RemotePks[k] \subseteq RemotePks'[k]]_vars

\* a run without flags has synced a supplier part that had a price break on
\* the remote and has created a further one for it
NoDeleteWithoutFlagWitness ==
    /\ ~force /\ ~force_price /\ ppc = "bom"
    /\ \E old \in r_pbs, new \in r_pbs :
          /\ old.pk < FirstNewPk /\ new.pk >= FirstNewPk /\ old.part = new.part

\* ---- completeness of a listing ----

\* the records of the pages at the URLs us, page after page
RECURSIVE Flatten(_)
Flatten(us) ==
    IF us = <<>> THEN <<>>
    ELSE [i \in 1..page_len[us[1]] |-> <<us[1], i>>] \o Flatten(Tail(us))

\* every answer of the listing was a page {"results": ..., "next": ...}
AllPaged == \A i \in 1..Len(requested) : page_kind[requested[i]] = "paged"

\* C36: pagination completeness. Over a finite chain of pages the fetch
\* follows 'next' while it is non-null and stops at the first page whose
\* 'next' is null, and returns every record of every page exactly once, in
\* page order; a bare array response is returned unchanged.
PaginationComplete ==
    fpc = "done" =>
      /\ AllPaged =>
            /\ requested[1] = "u1"
            /\ \A i \in 1..(Len(requested) - 1) :
                  /\ page_next[requested[i]] # None
                  /\ requested[i + 1] = page_next[requested[i]]
            /\ page_next[requested[Len(requested)]] = None
            /\ items = Flatten(requested)
            /\ \A i \in 1..Len(requested) : \A k \in 1..page_len[requested[i]] :
                  Cardinality({n \in 1..Len(items) : items[n] = <<requested[i], k>>}) = 1
      /\ page_kind["u1"] = "array" =>
            /\ requested = <<"u1">>
            /\ items = [i \in 1..page_len["u1"] |-> <<"u1", i>>]

\* a listing of three pages, the first and the last with records, has
\* returned
PaginationCompleteWitness ==
    /\ fpc = "done" /\ AllPaged /\ Len(requested) = 3
    /\ page_len[requested[1]] > 0 /\ page_len[requested[3]] > 0

\* ---- variant_of: written by the pull, resolved by the push ----

\* Strings are sequences of characters; MaxChars is the longest name and
\* the longest revision.
MaxChars == 2

Chars == {"a", "."}

Strs(lo) == UNION {[1..n -> Chars] : n \in lo..MaxChars}

\* inv-parts_to_json.py sanitize_part_name: '.' becomes ','
SanitizePartName(name) == [i \in 1..Len(name) |-> IF name[i] = "." THEN "," ELSE name[i]]

\* inv-parts_to_json.py main: variant_of_full = f"{v_name}{v_rev_suffix}"
VariantOfFull(name, rev) ==
    SanitizePartName(name) \o (IF rev # <<>> THEN <<".">> \o rev ELSE <<>>)

\* name, rev = variant_str.rsplit(".", 1), or variant_str, ""
RSplitDot(str) ==
    LET dots == {i \in 1..Len(str) : str[i] = "."}
        i == CHOOSE d \in dots : \A e \in dots : e <= d
    IN IF dots = {} THEN <<str, <<>>>>
       ELSE <<SubSeq(str, 1, i - 1), SubSeq(str, i + 1, Len(str))>>

\* json_to_inv-parts.py resolve_variant_target; the cache lists the parts of
\* a name in the order of the remote
ResolveVariantTarget(variant_str, parts) ==
    LET split == RSplitDot(variant_str)
        hits == {i \in 1..Len(parts) : /\ parts[i].name = split[1]
                                       /\ parts[i].revision = split[2]}
    IN IF variant_str = <<>> \/ hits = {} THEN 0
       ELSE CHOOSE i \in hits : \A j \in hits : i <= j

InitVariant ==
    /\ v_parts \in UNION {[1..n -> [name : Strs(1), revision : Strs(0)]] : n \in 1..2}
    /\ v_name \in Strs(1) /\ v_rev \in Strs(0)
    /\ v_str = <<>>
    /\ v_res = 0
    /\ vpc = "pull"
    /\ IdleLevel /\ IdleAgg /\ IdlePush /\ IdleFetch /\ IdleRetry
    /\ IdleGraph /\ IdleCat /\ IdleBom /\ IdleRemove /\ IdleCompany

\* the pull writes "variant_of" of a part whose base is (v_name, v_rev)
WriteVariant ==
    /\ vpc = "pull"
    /\ v_str' = VariantOfFull(v_name, v_rev)
    /\ vpc' = "push"
    /\ UNCHANGED <<v_parts, v_name, v_rev, v_res>>
    /\ UNCHANGED <<bomVars, removeVars, companyVars, graphVars, catVars, fetchVars, retryVars>>
    /\ UNCHANGED <<levelVars, aggVars, pushVars>>

\* the push resolves data["variant_of"] against its cache
ResolveVariant ==
    /\ vpc = "push"
    /\ v_res' = ResolveVariantTarget(v_str, v_parts)
    /\ vpc' = "done"
    /\ UNCHANGED <<v_parts, v_name, v_rev, v_str>>
    /\ UNCHANGED <<bomVars, removeVars, companyVars, graphVars, catVars, fetchVars, retryVars>>
    /\ UNCHANGED <<levelVars, aggVars, pushVars>>

NextVariant == WriteVariant \/ ResolveVariant

SpecVariant == InitVariant /\ [][NextVariant]_vars

\* the parts with exactly the name and the revision of the base
ExactTargets ==
    {i \in 1..Len(v_parts) : v_parts[i].name = v_name /\ v_parts[i].revision = v_rev}

\* C37: variant-of round trip. The string the pull writes for a part with
\* name n and revision r is resolved to a cached part with exactly name n and
\* revision r, also when r contains a '.', and to no part when none has that
\* name and revision.
VariantRoundTrip ==
    vpc = "done" =>
        IF ExactTargets = {} THEN v_res = 0 ELSE v_res \in ExactTargets

\* the same for a base whose name and revision hold no '.'
VariantRoundTripNoDot ==
    (/\ vpc = "done"
     /\ \A i \in 1..Len(v_name) : v_name[i] # "."
     /\ \A i \in 1..Len(v_rev) : v_rev[i] # ".") =>
        IF ExactTargets = {} THEN v_res = 0 ELSE v_res \in ExactTargets

\* ---- removal of a part file, delete_part_from_file ----

MaxCandidates == 2

\* the file is read and find_part_exact has listed the candidates; the
\* candidate at position i has pk i
InitRemove ==
    /\ d_script \in {"pts", "parts"}
    /\ d_clean \in {"none", "confirm", "yes"}
    /\ d_remove_json \in BOOLEAN
    /\ d_cands \in UNION {[1..n -> [deps : BOOLEAN]] : n \in 0..MaxCandidates}
    /\ d_i = 1
    /\ d_deleted = {} /\ d_skipped = {}
    /\ d_files = TRUE
    /\ dpc = "loop"
    /\ IdleLevel /\ IdleAgg /\ IdlePush /\ IdleFetch /\ IdleRetry
    /\ IdleGraph /\ IdleCat /\ IdleBom /\ IdleVariant /\ IdleCompany

\* one pass of 'for part in candidates': the answers typed at the two
\* prompts and the status of the DELETE are the environment's
DeleteCandidate ==
    /\ dpc = "loop"
    /\ d_i <= Len(d_cands)
    /\ \E yes \in BOOLEAN, confirmed \in BOOLEAN, status \in {204, 400} :
         LET total == d_cands[d_i].deps
             refused == d_clean = "confirm" /\ total /\ ~(yes /\ confirmed)
             warned_off == d_script = "pts" /\ d_clean = "none" /\ total
         IN IF refused \/ warned_off
            THEN /\ d_skipped' = d_skipped \cup {d_i}
                 /\ d_i' = d_i + 1
                 /\ UNCHANGED <<d_deleted, dpc>>
            ELSE IF status = 204
                 THEN /\ d_deleted' = d_deleted \cup {d_i}
                      /\ d_i' = d_i + 1
                      /\ UNCHANGED <<d_skipped, dpc>>
                 ELSE /\ dpc' = "done"
                      /\ UNCHANGED <<d_i, d_deleted, d_skipped>>
    /\ UNCHANGED <<d_script, d_clean, d_remove_json, d_cands, d_files>>
    /\ UNCHANGED <<bomVars, variantVars, companyVars, graphVars, catVars, fetchVars, retryVars>>
    /\ UNCHANGED <<levelVars, aggVars, pushVars>>

\* after the loop: 'if remove_json', the files are removed; without a
\* candidate the function has returned before the loop
RemoveJson ==
    /\ dpc = "loop"
    /\ d_i > Len(d_cands)
    /\ d_files' = IF d_remove_json /\ d_cands # <<>> THEN FALSE ELSE d_files
    /\ dpc' = "done"
    /\ UNCHANGED <<d_script, d_clean, d_remove_json, d_cands, d_i, d_deleted, d_skipped>>
    /\ UNCHANGED <<bomVars, variantVars, companyVars, graphVars, catVars, fetchVars, retryVars>>
    /\ UNCHANGED <<levelVars, aggVars, pushVars>>

NextRemove == DeleteCandidate \/ RemoveJson

SpecRemove == InitRemove /\ [][NextRemove]_vars

\* C38: the local files are removed only after successful deletion. The
\* .json and .bom.json of a part are gone only when every matching remote
\* part was deleted (its DELETE answered 204); when the deletion of a
\* candidate was skipped the files are kept.
RemoveOnlyAfterDeletion ==
    ~d_files => /\ d_remove_json
                /\ d_skipped = {}
                /\ \A i \in 1..Len(d_cands) : i \in d_deleted

\* the same for a run in which no candidate is skipped
RemoveAfterAllDeleted ==
    (~d_files /\ d_skipped = {}) =>
        /\ d_remove_json
        /\ \A i \in 1..Len(d_cands) : i \in d_deleted

\* ---- the cache of a push run under --force ----

\* C39: cache soundness under deletion. At every point of a push run every
\* record held in the in-memory cache denotes a part that still exists on
\* the remote, so that a part deleted by --force is returned by no later
\* resolution of the run.
CacheSound ==
    \A name \in DOMAIN cache : \A i \in 1..Len(cache[name]) :
        cache[name][i].pk \in {p.pk : p \in r_parts}

\* the same for json_to_inv-pts.py, whose delete_part prunes the cache
CacheSoundPts == script = "pts" => CacheSound

\* ---- resolution of a company by name ----

\* A company name is a sequence of words.
CompanyNames == {<<"Acme">>, <<"Acme", "Corp">>, <<"Bolt">>}

\* the value occurs in the name, as a run of words
ContainsName(name, value) ==
    \E k \in 0..(Len(name) - Len(value)) : SubSeq(name, k + 1, k + Len(value)) = value

\* GET company/?name=<value>&is_<kind>=true: the rows the remote lists, by
\* pk; a row's 'kind' says whether it carries the flag asked for
ListCompanies(rows, value) ==
    ByPk({c \in rows : /\ c.kind
                       /\ IF c_fuzzy THEN ContainsName(c.name, value) ELSE c.name = value})

\* every name is on the remote at most once, under any of two orders of pks
InitCompany ==
    /\ c_script \in {"pts", "parts"}
    /\ c_fuzzy \in BOOLEAN
    /\ \E present \in SUBSET CompanyNames, flagged \in SUBSET CompanyNames, up \in BOOLEAN :
          c_rows = {[pk |-> IF up THEN Len(n) ELSE 3 - Len(n), name |-> n,
                     kind |-> n \in flagged] : n \in {m \in present : m # <<"Bolt">>}}
                   \cup {[pk |-> 3, name |-> n, kind |-> n \in flagged] :
                             n \in present \cap {<<"Bolt">>}}
    /\ c_name \in {<<"Acme">>, <<"Bolt">>}
    /\ c_pk = 0
    /\ c_created = FALSE
    /\ cpc = "resolve"
    /\ IdleLevel /\ IdleAgg /\ IdlePush /\ IdleFetch /\ IdleRetry
    /\ IdleGraph /\ IdleCat /\ IdleBom /\ IdleVariant /\ IdleRemove

\* json_to_inv-parts.py get_or_create_company: the first listed row, or a POST;
\* json_to_inv-pts.py push_part: the first listed row of exactly that
\* name, or sys.exit(1)
ResolveCompany ==
    /\ cpc = "resolve"
    /\ LET companies == ListCompanies(c_rows, c_name)
           Exact(c) == c.name = c_name
           sup_results == SelectSeq(companies, Exact)
       IN IF c_script = "pts"
          THEN /\ c_pk' = IF sup_results # <<>> THEN sup_results[1].pk ELSE 0
               /\ cpc' = IF sup_results # <<>> THEN "done" ELSE "exit"
               /\ UNCHANGED <<c_rows, c_created>>
          ELSE IF companies # <<>>
               THEN /\ c_pk' = companies[1].pk
                    /\ cpc' = "done"
                    /\ UNCHANGED <<c_rows, c_created>>
               ELSE /\ c_rows' = c_rows \cup {[pk |-> 4, name |-> c_name, kind |-> TRUE]}
                    /\ c_pk' = 4
                    /\ c_created' = TRUE
                    /\ cpc' = "done"
    /\ UNCHANGED <<c_script, c_fuzzy, c_name>>
    /\ UNCHANGED <<bomVars, variantVars, removeVars, graphVars, catVars, fetchVars, retryVars>>
    /\ UNCHANGED <<levelVars, aggVars, pushVars>>

NextCompany == ResolveCompany

SpecCompany == InitCompany /\ [][NextCompany]_vars

\* C40: company resolution is exact. The company id bound to a supplier or
\* manufacturer relationship belongs to a company whose name equals the
\* requested name, also when the name filter of the remote returns other
\* companies before or instead of the exact one; a company is created only
\* when no company with exactly that name exists.
CompanyExact ==
    cpc = "done" =>
        /\ \E c \in c_rows : c.pk = c_pk /\ c.name = c_name
        /\ c_created => ~\E c \in c_rows : c.pk # c_pk /\ c.name = c_name

\* the same for json_to_inv-pts.py, which filters the listing by name
CompanyExactPts == c_script = "pts" => CompanyExact

\* the binding alone, on a remote whose name filter is exact
CompanyExactFilter ==
    (cpc = "done" /\ ~c_fuzzy) => \E c \in c_rows : c.pk = c_pk /\ c.name = c_name
====
